---- MODULE Spec2Model ----
(***************************************************************************)
(* A model of the synchronisation core of bogin/Unframe:                   *)
(*   - the batch processor  (processFiles, processOwner, validateFileData, *)
(*     sanitizeFileData)                    specification SpecBatch        *)
(*   - the Google auth lifecycle (initialize, verifyAndInitializeAuth,     *)
(*     loadSavedTokens, setCredentials, the 'tokens' handler)              *)
(*                                          specification SpecAuth         *)
(*   - GoogleService.waitForConfiguration   specification SpecWait         *)
(* Every await of the source is one step of the model: an action completes *)
(* the pending asynchronous operation of one async function (successfully  *)
(* or with a failure) and runs the synchronous code that follows it up to  *)
(* the next await.                                                         *)
(***************************************************************************)
EXTENDS Integers, Sequences, FiniteSets, TLC

VARIABLES
    \* ---- batch processor ----
    batch,        \* task.files of the processFiles call(s)
    run,          \* number of processFiles calls started so far
    pfState,      \* the promise processFiles returned: idle/running/resolved/rejected
    pc,           \* per item: the store operation its callback is awaiting
    iuser,        \* per item: id of the `user` local (0 = null)
    results,      \* the `results` object of the current call
    files,        \* File store: id -> row
    users,        \* User store: sequence of rows, row k has id k
    clock,        \* what new Date() returns
    faults,       \* store operations that have failed so far
    firstFiles,   \* File store as it was when the first call had settled
    firstUsers,   \* User store as it was when the first call had settled
    \* ---- settings store and GoogleService ----
    settings,     \* systemSettings 'google': "absent" or "present"
    persisted,    \* systemSettings 'google_tokens': the token record, or NoTokens
    now,          \* what new Date() returns in GoogleService
    auth,         \* this.auth: "null" or "client"
    credentials,  \* this.auth.credentials
    isAuthenticated,
    ipc,          \* per initialize() call in flight: the operation it is awaiting
    itok,         \* per initialize() call: `tokens` of loadSavedTokens
    imerged,      \* per initialize() call: `mergedTokens` of loadSavedTokens
    irefresh,     \* per initialize() call: refreshToken calls it has made
    iassigned,    \* per initialize() call: it has assigned isAuthenticated
    iemitted,     \* per initialize() call in flight: 'authenticated' events it has emitted
    spc,          \* setCredentials: the operation it is awaiting
    stok,         \* setCredentials: `tokens` of the exchange
    sexisting,    \* setCredentials: `existingTokens`
    smerged,      \* setCredentials: `mergedTokens`
    hpc,          \* 'tokens' handler: the operation it is awaiting
    htok,         \* 'tokens' handler: `tokens` of the event
    hmerged,      \* 'tokens' handler: `mergedTokens`
    last,         \* the step just taken: whose, which operation returned, how, events emitted
    \* ---- GoogleService.waitForConfiguration ----
    wpc,          \* per caller of waitForConfiguration: where it is
    cpromise,     \* this.configurationPromise: "null", "pending" or "resolved"
    timer,        \* the polling interval: "none", "active" or "cleared"
    timers,       \* polling intervals created so far
    \* ---- environment and BackgroundService ----
    faulty,       \* the environment may fail: stores, provider, database
    bpc,          \* BackgroundService.start: the operation it is awaiting
    listening,    \* the 'authenticated' listener of start is registered
    binterval,    \* this.configCheckInterval: "none", "active" or "cleared"
    calls,        \* the calls made to etlService and syncQueue, in order
    \* ---- listFiles / getFile / getFileContent ----
    apc,          \* the provider-facing call: the operation it is awaiting
    akind,        \* which method was called
    ainput,       \* its arguments
    aparams,      \* the params sent to drive.files.list
    aresp,        \* what the call returned
    \* ---- the provider's listing and a caller paging through it ----
    npages,       \* pages the provider's listing has
    endToken,     \* nextPageToken of the provider's last page
    lpc,          \* the paging caller: idle, calling, next, done or threw
    lcursor,      \* the nextPageToken the caller passes forward
    lcalls,       \* listFiles calls the caller has made
    \* ---- BackgroundService heartbeat and shutdown ----
    isRunning,          \* this.isRunning
    processInterval,    \* this.processInterval: "none", "active" or "cleared"
    authCheckInterval,  \* etlService.authCheckInterval: "none", "active" or "cleared"
    monitoring,         \* syncQueue is monitoring
    exited,             \* process.exit was called: "no", or the exit code
    \* ---- startServer ----
    srvpc,        \* startServer: the operation it is awaiting
    slistening,   \* the 'authenticated' listener of startServer is registered
    \* ---- BaseOpenAIService ----
    osettings,    \* systemSettings 'openai': "absent" or "present"
    openai,       \* this.openai: "null" or "client"
    isConfigured,
    configurationPromise,  \* 0 for null, or the promise (promises are numbered)
    configResolver,        \* 0 for null, or the promise its resolve belongs to
    oresolved,    \* the promises that have been resolved
    opromises,    \* promises created so far
    oipc,         \* per initialize() call: "idle", or "get" while it awaits the settings
    opc,          \* per caller: idle, waiting, ensure1, ensure2, returned or threw
    okind,        \* per caller: what it called, "wait" or "ensure"
    owait,        \* per caller: the promise it awaits
    oreinit       \* reinitialize() has been called

batchVars == <<batch, run, pfState, pc, iuser, results, files, users, clock,
               faults, firstFiles, firstUsers>>

settingsVars == <<settings, persisted, now>>
passVars == <<ipc, itok, imerged, irefresh, iassigned, iemitted>>
exchangeVars == <<spc, stok, sexisting, smerged>>
handlerVars == <<hpc, htok, hmerged>>
waitVars == <<wpc, cpromise, timer, timers>>
bgVars == <<bpc, listening, binterval, calls>>
pageVars == <<npages, endToken, lpc, lcursor, lcalls>>
oaVars == <<osettings, openai, isConfigured, configurationPromise, configResolver,
            oresolved, opromises, oipc, opc, okind, owait, oreinit>>
apiVars == <<apc, akind, ainput, aparams, aresp, pageVars, oaVars>>
srvVars == <<srvpc, slistening>>
stopVars == <<isRunning, processInterval, authCheckInterval, monitoring, exited,
              srvVars>>
googleVars == <<settingsVars, auth, credentials, isAuthenticated, passVars,
                exchangeVars, handlerVars, last, waitVars, faulty, bgVars, apiVars,
                stopVars>>

vars == <<batchVars, googleVars>>

(***************************************************************************)
(* Bounds of the model                                                     *)
(***************************************************************************)
MaxRuns == 2
MaxFaults == 2

(***************************************************************************)
(* JavaScript values.  A field value is a string; an absent field reads as *)
(* undefined.  null is what `x || null` and the store's empty column give. *)
(***************************************************************************)
Undef == "undefined"
Null == "null"
Truthy(v) == v \notin {Undef, Null, ""}
TypeOf(v) == IF v = Undef THEN "undefined" ELSE "string"
OrNull(v) == IF Truthy(v) THEN v ELSE Null

\* strings for which Number(s) is a number
NumericStrings == {"10", "2048"}
IsNaNNumber(v) == v \notin NumericStrings
\* strings for which new Date(s) is a valid date
ParseableDates == {"2024-05-01T10:00:00Z"}
IsInvalidDate(v) == v \notin ParseableDates

(***************************************************************************)
(* Input records                                                           *)
(***************************************************************************)
NoOwner == [ty |-> "undefined", emailAddress |-> Undef, permissionId |-> Undef,
            displayName |-> Undef, photoLink |-> Undef]
OwnerAnn == [ty |-> "object", emailAddress |-> "ann@x.org", permissionId |-> "p1",
             displayName |-> "Ann", photoLink |-> Undef]
OwnerAnnRenamed == [OwnerAnn EXCEPT !.displayName = "Ann B."]
OwnerNoPermission == [OwnerAnn EXCEPT !.permissionId = Undef]

RecA == [id |-> "f1", name |-> "a.txt", mimeType |-> "text/plain", size |-> "10",
         modifiedTime |-> "2024-05-01T10:00:00Z", owner |-> OwnerAnn, owners |-> <<>>]
\* same file id and same owner permissionId as RecA, other name and displayName
RecA2 == [RecA EXCEPT !.name = "a2.txt", !.owner = OwnerAnnRenamed]
\* same file id as RecA, no name
RecANoName == [RecA EXCEPT !.name = Undef, !.owner = NoOwner]
RecB == [id |-> "f2", name |-> "b.txt", mimeType |-> Undef, size |-> Undef,
         modifiedTime |-> Undef, owner |-> NoOwner, owners |-> <<>>]
RecC == [id |-> "f3", name |-> "c.txt", mimeType |-> "text/plain", size |-> "abc",
         modifiedTime |-> Undef, owner |-> OwnerAnn, owners |-> <<>>]
RecNoId == [id |-> Undef, name |-> "x.txt", mimeType |-> "text/plain", size |-> Undef,
            modifiedTime |-> Undef, owner |-> NoOwner, owners |-> <<>>]
\* the shape the provider listing delivers: owners, no owner
RecP == [id |-> "f2", name |-> "p.txt", mimeType |-> "text/plain", size |-> "2048",
         modifiedTime |-> "2024-05-01T10:00:00Z", owner |-> NoOwner,
         owners |-> <<OwnerAnn>>]

Pool == {RecA, RecA2, RecANoName, RecB, RecC, RecNoId, RecP}
FileIds == {"f1", "f2", "f3"}

\* every batch of one or two records of the pool, and the three-record scenario
Batches == {<<r>> : r \in Pool} \cup {<<r, s>> : r \in Pool, s \in Pool}
               \cup {<<RecA, RecB, RecC>>}

Items == 1..Len(batch)

(***************************************************************************)
(* The stores (models/, not among the sources: modelled from the spec,     *)
(* sections 3 and 6: upsert by unique id, conflict -> merge of the given   *)
(* columns; id is required; find-or-create keyed by permissionId)          *)
(***************************************************************************)
NoMeta == [absent |-> TRUE]
NoLog == [error |-> [kind |-> "none", errors |-> <<>>], timestamp |-> 0]
NoRow == [present |-> FALSE, name |-> Null, mimeType |-> Null, size |-> Null,
          modifiedTime |-> Null, owner |-> NoOwner, userId |-> 0,
          metadata |-> NoMeta, syncStatus |-> Null, lastSyncAttempt |-> 0,
          errorLog |-> NoLog]

\* File.upsert(values): the columns given replace the stored ones, the others stay
MergeRow(old, values) ==
    [k \in DOMAIN NoRow |->
        IF k = "present" THEN TRUE
        ELSE IF k \in DOMAIN values THEN values[k] ELSE old[k]]

\* the store refuses a row without its key, and a failing store refuses any row
FileUpsertAccepts(values, ok) == ok /\ Truthy(values.id)

FileUpsert(store, values) ==
    [store EXCEPT ![values.id] = MergeRow(@, values)]

UserIndex(store, permissionId) ==
    {k \in 1..Len(store) : store[k].permissionId = permissionId}

\* User.findOrCreate({where: {permissionId}, defaults}): [store, id, created]
UserFindOrCreate(store, permissionId, defaults) ==
    IF UserIndex(store, permissionId) # {}
    THEN [store |-> store,
          id |-> CHOOSE k \in UserIndex(store, permissionId) :
                     \A j \in UserIndex(store, permissionId) : k <= j,
          created |-> FALSE]
    ELSE [store |-> Append(store, [id |-> Len(store) + 1,
                                   permissionId |-> permissionId,
                                   email |-> defaults.email,
                                   displayName |-> defaults.displayName,
                                   photoLink |-> defaults.photoLink,
                                   fileCount |-> 0]),
          id |-> Len(store) + 1,
          created |-> TRUE]

\* user.update({email, displayName, photoLink})
UserUpdate(store, id, values) ==
    [store EXCEPT ![id].email = values.email,
                  ![id].displayName = values.displayName,
                  ![id].photoLink = values.photoLink]

\* user.updateStats(): the aggregate statistics of the user (its file count)
UserUpdateStats(store, fstore, id) ==
    [store EXCEPT ![id].fileCount =
        Cardinality({f \in FileIds : fstore[f].present /\ fstore[f].userId = id})]

(***************************************************************************)
(* processOwner, validateFileData, sanitizeFileData                        *)
(***************************************************************************)
\* the guard of processOwner: no owner, no email or no permissionId → null
OwnerResolvable(o) ==
    o.ty = "object" /\ Truthy(o.emailAddress) /\ Truthy(o.permissionId)

\* the defaults of findOrCreate
OwnerDefaults(o) ==
    [email |-> o.emailAddress,
     displayName |-> OrNull(o.displayName),
     photoLink |-> OrNull(o.photoLink)]

\* a slip: the update writes the raw owner fields, without `|| null`
OwnerUpdateValuesRaw(o) ==
    [email |-> o.emailAddress,
     displayName |-> o.displayName,
     photoLink |-> o.photoLink]

\* the values of user.update
OwnerUpdateValues(o) ==
    [email |-> o.emailAddress,
     displayName |-> OrNull(o.displayName),
     photoLink |-> OrNull(o.photoLink)]

\* a slip: a found user is never updated
OwnerDiffersNever(row, o) == FALSE

\* !created && (user.email !== ... || user.displayName !== ... || user.photoLink !== ...)
OwnerDiffers(row, o) ==
    \/ row.email # o.emailAddress
    \/ row.displayName # o.displayName
    \/ row.photoLink # o.photoLink

RequiredFields == <<"id", "name", "mimeType">>

MissingRequired(r) ==
    SelectSeq(RequiredFields, LAMBDA f : ~Truthy(r[f]))

RECURSIVE MissingErrors(_)
MissingErrors(fs) ==
    IF fs = <<>> THEN <<>>
    ELSE <<<<"Missing required field", Head(fs)>>>> \o MissingErrors(Tail(fs))

ValidationErrors(r) ==
    MissingErrors(MissingRequired(r))
    \o (IF Truthy(r.id) /\ TypeOf(r.id) # "string"
        THEN <<<<"Invalid id type", TypeOf(r.id)>>>> ELSE <<>>)
    \o (IF Truthy(r.size) /\ IsNaNNumber(r.size)
        THEN <<<<"Invalid size format", r.size>>>> ELSE <<>>)
    \o (IF Truthy(r.modifiedTime) /\ IsInvalidDate(r.modifiedTime)
        THEN <<<<"Invalid modifiedTime format", r.modifiedTime>>>> ELSE <<>>)
    \o (IF r.owner.ty \notin {"undefined", "object"}
        THEN <<<<"Invalid owner format", "expected object">>>> ELSE <<>>)

sanitizeFileData(r, stamp) ==
    [id |-> r.id,
     name |-> r.name,
     mimeType |-> r.mimeType,
     size |-> OrNull(r.size),
     modifiedTime |-> OrNull(r.modifiedTime),
     owner |-> IF Len(r.owners) > 0 THEN r.owners[1] ELSE NoOwner,
     metadata |-> r,
     syncStatus |-> "success",
     lastSyncAttempt |-> stamp]

validateFileData(r, stamp) ==
    [isValid |-> ValidationErrors(r) = <<>>,
     errors |-> ValidationErrors(r),
     sanitizedData |-> sanitizeFileData(r, stamp)]

\* the row written in the catch block of an item
DegradedValues(r, message, stamp) ==
    [id |-> r.id,
     metadata |-> r,
     syncStatus |-> "error",
     lastSyncAttempt |-> stamp,
     errorLog |-> [error |-> message, timestamp |-> stamp]]

ValidationFailed(errs) == [kind |-> "Validation failed", errors |-> errs]
StoreFailed == [kind |-> "store operation failed", errors |-> <<>>]

(***************************************************************************)
(* Token records (google_tokens).  An absent field reads as undefined;     *)
(* expiry_date 0 stands for an absent expiry_date.                         *)
(***************************************************************************)
NoTokens == [present |-> FALSE, access_token |-> Undef, refresh_token |-> Undef,
             expiry_date |-> 0]
Tok(a, r, e) == [present |-> TRUE, access_token |-> a, refresh_token |-> r,
                 expiry_date |-> e]
HasRefresh(t) == t.present /\ Truthy(t.refresh_token)

MaxNow == 2
NCallers == 2

\* token records the settings store may hold at start: none, a fresh one, an
\* expired one with and without refresh_token
InitialTokens == {NoTokens, Tok("a1", "r1", MaxNow + 1), Tok("a1", "r1", 1),
                  Tok("a1", Undef, 1)}
\* what the provider may answer to refreshToken / getToken, and what a
\* 'tokens' event may carry: new tokens, with or without a refresh_token
ProviderTokens(t) == {Tok("a2", Undef, t + 1), Tok("a3", "r2", t + 1)}

NoStep == [by |-> "none", proc |-> 0, op |-> "none", ok |-> TRUE, events |-> <<>>,
           ret |-> "none", emitted |-> 0]
\* a step in which verifyAndInitializeAuth returns ret; emitted: the
\* 'authenticated' events the initialize() call has emitted up to and in this step
StepRet(by, p, op, ok, events, ret) ==
    [by |-> by, proc |-> p, op |-> op, ok |-> ok, events |-> events, ret |-> ret,
     emitted |-> IF by = "initialize"
                 THEN iemitted[p] + Cardinality({k \in DOMAIN events :
                                                   events[k] = "authenticated"})
                 ELSE 0]
Step(by, p, op, ok, events) == StepRet(by, p, op, ok, events, "none")

\* the arguments of a provider-facing call, and the params of files.list
NoInput == [modifiedTime |-> Undef, query |-> Null, fileId |-> Undef,
            nextPageToken |-> Null]
NoParams == [sent |-> FALSE]
NoResp == [files |-> <<>>, nextPageToken |-> Undef, hasMore |-> FALSE]

\* GoogleService as constructed, no call in flight, procs the initialize() callers
GoogleInit(procs) ==
    /\ auth = "null"
    /\ credentials = NoTokens
    /\ isAuthenticated = FALSE
    /\ ipc = [p \in procs |-> "idle"]
    /\ itok = [p \in procs |-> NoTokens]
    /\ imerged = [p \in procs |-> NoTokens]
    /\ irefresh = [p \in procs |-> 0]
    /\ iassigned = [p \in procs |-> FALSE]
    /\ iemitted = [p \in procs |-> 0]
    /\ spc = "idle"
    /\ stok = NoTokens
    /\ sexisting = NoTokens
    /\ smerged = NoTokens
    /\ hpc = "idle"
    /\ htok = NoTokens
    /\ hmerged = NoTokens
    /\ last = NoStep
    /\ wpc = [c \in procs \ {0} |-> "idle"]
    /\ cpromise = "null"
    /\ timer = "none"
    /\ timers = 0
    /\ bpc = "idle"
    /\ listening = FALSE
    /\ binterval = "none"
    /\ calls = <<>>
    /\ apc = "idle"
    /\ akind = "none"
    /\ ainput = NoInput
    /\ aparams = NoParams
    /\ aresp = NoResp
    /\ lpc = "idle"
    /\ lcursor = Null
    /\ lcalls = 0
    /\ isRunning = FALSE
    /\ processInterval = "none"
    /\ exited = "no"
    /\ srvpc = "idle"
    /\ slistening = FALSE
    /\ osettings = "absent"
    /\ openai = "null"
    /\ isConfigured = FALSE
    /\ configurationPromise = 0
    /\ configResolver = 0
    /\ oresolved = {}
    /\ opromises = 0
    /\ oipc = [p \in 0..NCallers |-> IF p = 0 THEN "get" ELSE "idle"]
    /\ opc = [c \in 1..NCallers |-> "idle"]
    /\ okind = [c \in 1..NCallers |-> "none"]
    /\ owait = [c \in 1..NCallers |-> 0]
    /\ oreinit = FALSE

(***************************************************************************)
(* processFiles                                                            *)
(***************************************************************************)
batchSize == 500

EmptyResults == [success |-> 0, failed |-> 0, errors |-> <<>>, usersProcessed |-> 0]

\* the catch block of an item up to its await: count the failure, record the error
FailItem(res, i, message) ==
    [res EXCEPT !.failed = @ + 1,
                !.errors = Append(@, [fileId |-> batch[i].id, error |-> message])]

\* An item's callback from the return of processOwner to its next await:
\* usersProcessed, validation, then File.upsert is pending, or the catch block's
AfterOwner(res, i, uid) ==
    LET counted == IF uid # 0 THEN [res EXCEPT !.usersProcessed = @ + 1] ELSE res
        validation == validateFileData(batch[i], clock)
    IN  IF validation.isValid
        THEN [pc |-> "upsert", res |-> counted]
        ELSE [pc |-> "degraded",
              res |-> FailItem(counted, i, ValidationFailed(validation.errors))]

\* the message of the error an item caught last (the degraded row's errorLog.error)
LastErrorOf(res, i) ==
    LET mine == SelectSeq(res.errors, LAMBDA e : e.fileId = batch[i].id)
    IN  mine[Len(mine)].error

\* batch.map(async ...) over the chunk lo+1..hi: every callback runs to its first
\* await; an unresolvable owner makes processOwner return null at once
RECURSIVE StartItems(_, _, _, _)
StartItems(k, hi, pcs, res) ==
    IF k > hi THEN [pcs |-> pcs, res |-> res]
    ELSE IF OwnerResolvable(batch[k].owner)
         THEN StartItems(k + 1, hi, [pcs EXCEPT ![k] = "findOrCreate"], res)
         ELSE LET a == AfterOwner(res, k, 0)
              IN  StartItems(k + 1, hi, [pcs EXCEPT ![k] = a.pc], a.res)

Min(a, b) == IF a < b THEN a ELSE b

\* the chunk (files.slice(i, i + batchSize)) an item belongs to
ChunkOf(i) == (i - 1) \div batchSize
ChunkItems(c) == {i \in Items : ChunkOf(i) = c}
Started(pcs) == {i \in Items : pcs[i] # "idle"}
CurrentChunk(pcs) == CHOOSE c \in 0..Len(batch) :
                        /\ ChunkItems(c) \cap Started(pcs) # {}
                        /\ ChunkItems(c + 1) \cap Started(pcs) = {}

\* a slip: the chunk is over as soon as one callback is done (Promise.race)
AdvanceAny(state, pcs, res) ==
    IF state = "running" /\ \E i \in DOMAIN pcs : pcs[i] = "done"
    THEN [state |-> "resolved", pcs |-> pcs, res |-> res]
    ELSE [state |-> state, pcs |-> pcs, res |-> res]

\* Promise.all of the current chunk after one callback has moved: a rejected
\* callback rejects processFiles (the others keep running); when every
\* callback of the chunk is done the loop maps the next chunk, or returns results
Advance(state, pcs, res) ==
    IF state # "running" THEN [state |-> state, pcs |-> pcs, res |-> res]
    ELSE LET c == CurrentChunk(pcs)
         IN  IF \E i \in ChunkItems(c) : pcs[i] = "rejected"
             THEN [state |-> "rejected", pcs |-> pcs, res |-> res]
             ELSE IF \E i \in ChunkItems(c) : pcs[i] # "done"
             THEN [state |-> "running", pcs |-> pcs, res |-> res]
             ELSE IF ChunkItems(c + 1) = {}
             THEN [state |-> "resolved", pcs |-> pcs, res |-> res]
             ELSE LET s == StartItems((c + 1) * batchSize + 1,
                                      Min(Len(batch), (c + 2) * batchSize), pcs, res)
                  IN  [state |-> "running", pcs |-> s.pcs, res |-> s.res]

Settled == \A i \in Items : pc[i] \in {"done", "rejected"}

\* a store operation may fail; MaxFaults bounds how many do
Outcome(ok) == ok \/ faults < MaxFaults
Count(ok) == IF ok THEN faults ELSE faults + 1

InitBatch ==
    /\ batch \in Batches
    /\ run = 0
    /\ pfState = "idle"
    /\ pc = [i \in 1..Len(batch) |-> "idle"]
    /\ iuser = [i \in 1..Len(batch) |-> 0]
    /\ results = EmptyResults
    /\ files = [f \in FileIds |-> NoRow]
    /\ users = <<>>
    /\ clock = 0
    /\ faults = 0
    /\ firstFiles = [f \in FileIds |-> NoRow]
    /\ firstUsers = <<>>
    /\ settings = "absent" /\ persisted = NoTokens /\ now = 1
    /\ faulty = TRUE
    /\ GoogleInit({0})
    /\ npages = 1
    /\ endToken = Undef
    /\ authCheckInterval = "none"
    /\ monitoring = FALSE

\* processFiles(task) is called (again, once the previous call has settled)
StartRun ==
    /\ run < MaxRuns
    /\ run = 0 \/ Settled
    /\ LET s == StartItems(1, Min(Len(batch), batchSize),
                           [i \in Items |-> "idle"], EmptyResults)
           a == Advance("running", s.pcs, s.res)
       IN  /\ pfState' = a.state
           /\ pc' = a.pcs
           /\ results' = a.res
    /\ run' = run + 1
    /\ clock' = clock + 1
    /\ iuser' = [i \in Items |-> 0]
    /\ firstFiles' = IF run = 1 THEN files ELSE firstFiles
    /\ firstUsers' = IF run = 1 THEN users ELSE firstUsers
    /\ UNCHANGED <<batch, files, users, faults, googleVars>>

\* common tail of the item steps
Continue(i, newpc, res, uid) ==
    LET a == Advance(pfState, [pc EXCEPT ![i] = newpc], res)
    IN  /\ pfState' = a.state
        /\ pc' = a.pcs
        /\ results' = a.res
        /\ iuser' = [iuser EXCEPT ![i] = uid]
        /\ UNCHANGED <<batch, run, clock, firstFiles, firstUsers, googleVars>>

\* await User.findOrCreate(...) of processOwner returns or throws
CompleteFindOrCreate(i) ==
    /\ pc[i] = "findOrCreate"
    /\ \E ok \in BOOLEAN :
        /\ Outcome(ok)
        /\ faults' = Count(ok)
        /\ LET o == batch[i].owner
               r == UserFindOrCreate(users, o.permissionId, OwnerDefaults(o))
           IN  IF ~ok
               THEN \* caught in processOwner: return null
                    LET a == AfterOwner(results, i, 0)
                    IN  Continue(i, a.pc, a.res, 0) /\ UNCHANGED users
               ELSE /\ users' = r.store
                    /\ IF ~r.created /\ OwnerDiffers(r.store[r.id], o)
                       THEN Continue(i, "userUpdate", results, r.id)
                       ELSE LET a == AfterOwner(results, i, r.id)
                            IN  Continue(i, a.pc, a.res, r.id)
    /\ UNCHANGED files

\* await user.update(...) of processOwner returns or throws
CompleteUserUpdate(i) ==
    /\ pc[i] = "userUpdate"
    /\ \E ok \in BOOLEAN :
        /\ Outcome(ok)
        /\ faults' = Count(ok)
        /\ IF ok
           THEN /\ users' = UserUpdate(users, iuser[i], OwnerUpdateValues(batch[i].owner))
                /\ LET a == AfterOwner(results, i, iuser[i])
                   IN  Continue(i, a.pc, a.res, iuser[i])
           ELSE /\ UNCHANGED users
                /\ LET a == AfterOwner(results, i, 0)
                   IN  Continue(i, a.pc, a.res, 0)
    /\ UNCHANGED files

\* await File.upsert(validation.sanitizedData) returns or throws
CompleteUpsert(i) ==
    /\ pc[i] = "upsert"
    /\ \E ok \in BOOLEAN :
        /\ Outcome(ok)
        /\ faults' = Count(ok)
        /\ LET values == [k \in DOMAIN sanitizeFileData(batch[i], clock) \cup {"userId"} |->
                            IF k = "userId" THEN iuser[i]
                            ELSE sanitizeFileData(batch[i], clock)[k]]
           IN  IF FileUpsertAccepts(values, ok)
               THEN /\ files' = FileUpsert(files, values)
                    /\ Continue(i, IF iuser[i] # 0 THEN "updateStats" ELSE "done",
                                [results EXCEPT !.success = @ + 1], iuser[i])
               ELSE /\ UNCHANGED files
                    /\ Continue(i, "degraded", FailItem(results, i, StoreFailed), iuser[i])
    /\ UNCHANGED users

\* await user.updateStats() returns or throws
CompleteUpdateStats(i) ==
    /\ pc[i] = "updateStats"
    /\ \E ok \in BOOLEAN :
        /\ Outcome(ok)
        /\ faults' = Count(ok)
        /\ IF ok
           THEN /\ users' = UserUpdateStats(users, files, iuser[i])
                /\ Continue(i, "done", results, iuser[i])
           ELSE /\ UNCHANGED users
                /\ Continue(i, "degraded", FailItem(results, i, StoreFailed), iuser[i])
    /\ UNCHANGED files

\* await File.upsert({... syncStatus: 'error' ...}) of the catch block returns
\* or throws; nothing catches its failure, so the callback's promise rejects
CompleteDegraded(i) ==
    /\ pc[i] = "degraded"
    /\ \E ok \in BOOLEAN :
        /\ Outcome(ok)
        /\ faults' = Count(ok)
        /\ LET values == DegradedValues(batch[i], LastErrorOf(results, i), clock)
           IN  IF FileUpsertAccepts(values, ok)
               THEN /\ files' = FileUpsert(files, values)
                    /\ Continue(i, "done", results, iuser[i])
               ELSE /\ UNCHANGED files
                    /\ Continue(i, "rejected", results, iuser[i])
    /\ UNCHANGED users

NextBatch ==
    \/ StartRun
    \/ \E i \in Items : CompleteFindOrCreate(i)
    \/ \E i \in Items : CompleteUserUpdate(i)
    \/ \E i \in Items : CompleteUpsert(i)
    \/ \E i \in Items : CompleteUpdateStats(i)
    \/ \E i \in Items : CompleteDegraded(i)

SpecBatch == InitBatch /\ [][NextBatch]_vars

(***************************************************************************)
(* GoogleService: token merges                                             *)
(***************************************************************************)
\* {...a, ...b}: the fields b carries replace those of a; spreading null adds nothing
Spread(a, b) ==
    [present |-> TRUE,
     access_token |-> IF b.present /\ b.access_token # Undef
                      THEN b.access_token ELSE a.access_token,
     refresh_token |-> IF b.present /\ b.refresh_token # Undef
                       THEN b.refresh_token ELSE a.refresh_token,
     expiry_date |-> IF b.present /\ b.expiry_date # 0
                     THEN b.expiry_date ELSE a.expiry_date]

\* a slip: the refreshed tokens are saved as they came
RefreshMergeDropping(tokens, refreshed) ==
    [Spread(tokens, refreshed) EXCEPT !.refresh_token = refreshed.refresh_token]

\* loadSavedTokens: {...tokens, ...refreshedTokens.tokens, refresh_token: tokens.refresh_token}
RefreshMerge(tokens, refreshed) ==
    [Spread(tokens, refreshed) EXCEPT !.refresh_token = tokens.refresh_token]

\* a slip: the exchanged refresh_token is taken as it came
ExchangeMergeDropping(existing, tokens) ==
    [Spread(existing, tokens) EXCEPT !.refresh_token = tokens.refresh_token]

\* setCredentials: {...existingTokens, ...tokens,
\*                  refresh_token: tokens.refresh_token || existingTokens?.refresh_token}
ExchangeMerge(existing, tokens) ==
    [Spread(existing, tokens) EXCEPT
        !.refresh_token = IF Truthy(tokens.refresh_token)
                          THEN tokens.refresh_token ELSE existing.refresh_token]

\* the 'tokens' handler: {...currentTokens, ...tokens, access_token: a || b, ...}
HandlerMerge(current, tokens) ==
    [Spread(current, tokens) EXCEPT
        !.access_token = IF Truthy(tokens.access_token)
                         THEN tokens.access_token ELSE current.access_token,
        !.refresh_token = IF Truthy(tokens.refresh_token)
                          THEN tokens.refresh_token ELSE current.refresh_token,
        !.expiry_date = IF tokens.expiry_date # 0
                        THEN tokens.expiry_date ELSE current.expiry_date]

\* a slip: > for >=
NeedsRefreshStrict(tokens, t) ==
    /\ tokens.expiry_date # 0 /\ t > tokens.expiry_date
    /\ Truthy(tokens.refresh_token)

\* loadSavedTokens: now >= expiryDate && tokens.refresh_token
\* (new Date(undefined) is an invalid date, and no date is >= it)
NeedsRefresh(tokens, t) ==
    /\ tokens.expiry_date # 0 /\ t >= tokens.expiry_date
    /\ Truthy(tokens.refresh_token)

(***************************************************************************)
(* The environment and the listener BackgroundService.start registers      *)
(***************************************************************************)
\* how an awaited store, provider or database operation may end
Outcomes == IF faulty THEN BOOLEAN ELSE {TRUE}
\* a provider call that throws has no tokens to return
ProviderFailure == IF faulty THEN {NoTokens} ELSE {}

MaxActivations == 2

Call(name, cause, authed) == [name |-> name, cause |-> cause, authed |-> authed]

\* a slip: the sync is started before the auth is handed over
ActivateSyncFirst(log, cause, authed) ==
    IF Len(log) >= 3 * MaxActivations THEN log
    ELSE log \o <<Call("startPeriodicSync", cause, authed),
                  Call("setAuth", cause, authed),
                  Call("setInitialized", cause, authed)>>

\* etlService.setAuth(auth); syncQueue.setInitialized(true);
\* this.startProcessing() -> etlService.startPeriodicSync()
\* (calls keeps the first MaxActivations activations)
Activate(log, cause, authed) ==
    IF Len(log) >= 3 * MaxActivations THEN log
    ELSE log \o <<Call("setAuth", cause, authed),
                  Call("setInitialized", cause, authed),
                  Call("startPeriodicSync", cause, authed)>>

\* the listener startServer registers: await etlService.setAuth(auth);
\* syncQueue.setInitialized(true)
Route(log, cause, authed) ==
    IF Len(log) >= 2 * MaxActivations THEN log
    ELSE log \o <<Call("setAuth", cause, authed),
                  Call("setInitialized", cause, authed)>>

\* this.emit(...) of the step just taken runs the registered listeners
Deliver ==
    IF /\ listening \/ slistening
       /\ \E i \in DOMAIN last'.events : last'.events[i] = "authenticated"
    THEN /\ calls' = IF listening
                     THEN Activate(calls, "authenticated", isAuthenticated')
                     ELSE Route(calls, "authenticated", isAuthenticated')
         /\ UNCHANGED <<bpc, listening, binterval>>
    ELSE UNCHANGED bgVars

(***************************************************************************)
(* GoogleService: the shared fields and the locals of an initialize() call *)
(***************************************************************************)
Service == [persisted |-> persisted, credentials |-> credentials,
            isAuthenticated |-> isAuthenticated, auth |-> auth]

SetService(sv) ==
    /\ persisted' = sv.persisted
    /\ credentials' = sv.credentials
    /\ isAuthenticated' = sv.isAuthenticated
    /\ auth' = sv.auth

Pass(p) == [pc |-> ipc[p], tok |-> itok[p], merged |-> imerged[p],
            refresh |-> irefresh[p], assigned |-> iassigned[p],
            emitted |-> iemitted[p]]

SetPass(p, ps) ==
    /\ ipc' = [ipc EXCEPT ![p] = ps.pc]
    /\ itok' = [itok EXCEPT ![p] = ps.tok]
    /\ imerged' = [imerged EXCEPT ![p] = ps.merged]
    /\ irefresh' = [irefresh EXCEPT ![p] = ps.refresh]
    /\ iassigned' = [iassigned EXCEPT ![p] = ps.assigned]
    /\ iemitted' = [iemitted EXCEPT ![p] = ps.emitted]

NewPass == [pc |-> "get", tok |-> NoTokens, merged |-> NoTokens,
            refresh |-> 0, assigned |-> FALSE, emitted |-> 0]

\* initialize() has returned r ("true"/"false"): its locals are gone
Returned(p, r, assigned) ==
    [NewPass EXCEPT !.pc = r, !.refresh = irefresh[p], !.assigned = assigned]

InFlight(p) == ipc[p] \notin {"idle", "false", "true", "threw"}

\* a slip: initialize lets the error of the settings store through
InitializeRethrows(p) == "threw"

\* the catch of initialize: the error is logged and false returned
InitializeCatch(p) == "false"

\* a slip: a missing token record is not noticed
NoSavedTokensNever(tokens) == FALSE

\* loadSavedTokens: if (!tokens)
NoSavedTokens(tokens) == ~tokens.present

\* a slip: the catch of setCredentials only rethrows
ExchangeCatchKeeps(sv) == sv

\* the catch of setCredentials: isAuthenticated = false, then rethrow
ExchangeCatch(sv) == [sv EXCEPT !.isAuthenticated = FALSE]

(***************************************************************************)
(* initialize / verifyAndInitializeAuth / loadSavedTokens, one step per    *)
(* await.  ipc[p] = "true"/"false": initialize() has returned that.        *)
(***************************************************************************)
\* await systemSettingsService.get('google') returns or throws; with settings
\* the OAuth2 client is built and loadTokensFromSettings is awaited
SettingsGet(p) ==
    /\ ipc[p] = "get"
    /\ \E ok \in Outcomes :
        /\ last' = Step("initialize", p, "settings.get", ok, <<>>)
        /\ IF ok /\ settings = "present"
           THEN /\ SetService([Service EXCEPT !.auth = "client",
                                              !.credentials = NoTokens])
                /\ SetPass(p, [Pass(p) EXCEPT !.pc = "load"])
           ELSE /\ SetService(Service)
                /\ SetPass(p, Returned(p, IF ok THEN "false" ELSE InitializeCatch(p),
                                       iassigned[p]))
    /\ Deliver
    /\ UNCHANGED <<batchVars, faulty, apiVars, stopVars, settings, now, exchangeVars, handlerVars, waitVars>>

\* await this.loadTokensFromSettings() of loadSavedTokens returns (null when
\* the store throws)
TokensLoad(p) ==
    /\ ipc[p] = "load"
    /\ \E ok \in Outcomes :
        /\ LET tokens == IF ok THEN persisted ELSE NoTokens
           IN  IF NoSavedTokens(tokens)
               THEN \* no tokens: not authenticated, authenticationRequired, return
                    /\ SetService([Service EXCEPT !.isAuthenticated = FALSE])
                    /\ SetPass(p, Returned(p, "true", TRUE))
                    /\ last' = StepRet("initialize", p, "tokens.load", ok,
                                    <<"authenticationRequired">>, "false")
               ELSE IF NeedsRefresh(tokens, now)
               THEN \* this.auth.refreshToken(tokens.refresh_token) is awaited
                    /\ SetService(Service)
                    /\ SetPass(p, [Pass(p) EXCEPT !.pc = "refresh", !.tok = tokens,
                                                  !.refresh = @ + 1])
                    /\ last' = Step("initialize", p, "tokens.load", ok, <<>>)
               ELSE \* credentials set, 'authenticated', drive.files.list is awaited
                    /\ SetService([Service EXCEPT !.credentials = tokens,
                                                  !.isAuthenticated = TRUE])
                    /\ SetPass(p, [Pass(p) EXCEPT !.pc = "verify", !.tok = tokens,
                                                  !.assigned = TRUE,
                                                  !.emitted = @ + 1])
                    /\ last' = Step("initialize", p, "tokens.load", ok,
                                    <<"authenticated">>)
    /\ Deliver
    /\ UNCHANGED <<batchVars, faulty, apiVars, stopVars, settings, now, exchangeVars, handlerVars, waitVars>>

\* await this.auth.refreshToken(...) returns tokens or throws
RefreshReturn(p) ==
    /\ ipc[p] = "refresh"
    /\ \E resp \in ProviderTokens(now) \cup ProviderFailure :
        IF resp.present
        THEN /\ SetService(Service)
             /\ SetPass(p, [Pass(p) EXCEPT !.pc = "save",
                                           !.merged = RefreshMerge(itok[p], resp)])
             /\ last' = Step("initialize", p, "refreshToken", TRUE, <<>>)
        ELSE \* refreshError: not authenticated, return false; authenticationRequired
             /\ SetService([Service EXCEPT !.isAuthenticated = FALSE])
             /\ SetPass(p, Returned(p, "true", TRUE))
             /\ last' = StepRet("initialize", p, "refreshToken", FALSE,
                             <<"authenticationRequired">>, "false")
    /\ Deliver
    /\ UNCHANGED <<batchVars, faulty, apiVars, stopVars, settings, now, exchangeVars, handlerVars, waitVars>>

\* await this.saveTokensToSettings(mergedTokens) of the refresh returns or throws
SaveRefreshed(p) ==
    /\ ipc[p] = "save"
    /\ \E ok \in Outcomes :
        /\ IF ok
           THEN /\ SetService([Service EXCEPT !.persisted = imerged[p],
                                              !.credentials = imerged[p],
                                              !.isAuthenticated = TRUE])
                /\ SetPass(p, [Pass(p) EXCEPT !.pc = "verify", !.assigned = TRUE,
                                              !.emitted = @ + 1])
                /\ last' = Step("initialize", p, "tokens.save", TRUE, <<"authenticated">>)
           ELSE /\ SetService([Service EXCEPT !.isAuthenticated = FALSE])
                /\ SetPass(p, Returned(p, "true", TRUE))
                /\ last' = StepRet("initialize", p, "tokens.save", FALSE,
                                <<"authenticationRequired">>, "false")
    /\ Deliver
    /\ UNCHANGED <<batchVars, faulty, apiVars, stopVars, settings, now, exchangeVars, handlerVars, waitVars>>

\* await this.drive.files.list({pageSize: 1}) returns or throws
VerifyReturn(p) ==
    /\ ipc[p] = "verify"
    /\ \E ok \in Outcomes :
        IF ok
        THEN /\ SetService([Service EXCEPT !.isAuthenticated = TRUE])
             /\ SetPass(p, Returned(p, "true", TRUE))
             /\ last' = StepRet("initialize", p, "files.list", TRUE, <<"authenticated">>, "true")
        ELSE \* apiError: systemSettingsService.update('google_tokens', null) is awaited
             /\ SetService(Service)
             /\ SetPass(p, [Pass(p) EXCEPT !.pc = "clear"])
             /\ last' = Step("initialize", p, "files.list", FALSE, <<>>)
    /\ Deliver
    /\ UNCHANGED <<batchVars, faulty, apiVars, stopVars, settings, now, exchangeVars, handlerVars, waitVars>>

\* await systemSettingsService.update('google_tokens', null) returns or throws
ClearReturn(p) ==
    /\ ipc[p] = "clear"
    /\ \E ok \in Outcomes :
        /\ IF ok
           THEN /\ SetService([Service EXCEPT !.persisted = NoTokens,
                                              !.isAuthenticated = FALSE])
                /\ SetPass(p, Returned(p, "true", TRUE))
                /\ last' = StepRet("initialize", p, "tokens.clear", TRUE,
                                <<"authenticationFailed", "authenticationRequired">>, "false")
           ELSE \* thrown out of the inner catch: the outer catch emits and returns
                /\ SetService(Service)
                /\ SetPass(p, Returned(p, "true", iassigned[p]))
                /\ last' = StepRet("initialize", p, "tokens.clear", FALSE,
                                <<"authenticationFailed">>, "false")
    /\ Deliver
    /\ UNCHANGED <<batchVars, faulty, apiVars, stopVars, settings, now, exchangeVars, handlerVars, waitVars>>

\* a caller (startup, a route) calls initialize()
StartInitialize ==
    /\ ~InFlight(0)
    /\ SetPass(0, NewPass)
    /\ last' = Step("initialize", 0, "call", TRUE, <<>>)
    /\ Deliver
    /\ UNCHANGED <<batchVars, faulty, apiVars, stopVars, settingsVars, auth, credentials, isAuthenticated,
                   exchangeVars, handlerVars, waitVars>>

\* the administrator stores the provider settings
Configure ==
    /\ settings = "absent"
    /\ settings' = "present"
    /\ last' = Step("admin", 0, "settings.update", TRUE, <<>>)
    /\ Deliver
    /\ UNCHANGED <<batchVars, faulty, apiVars, stopVars, persisted, now, auth, credentials,
                   isAuthenticated, passVars, exchangeVars, handlerVars, waitVars>>

\* initialize() called again and again, nothing else running
InitVerify ==
    /\ batch = <<>> /\ run = 0 /\ pfState = "idle" /\ pc = <<>> /\ iuser = <<>>
    /\ results = EmptyResults
    /\ files = [f \in FileIds |-> NoRow] /\ users = <<>> /\ clock = 0 /\ faults = 0
    /\ firstFiles = [f \in FileIds |-> NoRow] /\ firstUsers = <<>>
    /\ settings = "present"
    /\ persisted \in InitialTokens
    /\ now \in 1..MaxNow
    /\ faulty = TRUE
    /\ GoogleInit({0})
    /\ npages = 1
    /\ endToken = Undef
    /\ authCheckInterval = "none"
    /\ monitoring = FALSE

NextVerify ==
    \/ StartInitialize
    \/ SettingsGet(0)
    \/ TokensLoad(0)
    \/ RefreshReturn(0)
    \/ SaveRefreshed(0)
    \/ VerifyReturn(0)
    \/ ClearReturn(0)

SpecVerify == InitVerify /\ [][NextVerify]_vars

(***************************************************************************)
(* setCredentials(code), one step per await                                *)
(***************************************************************************)
SetExchange(newpc, tok, existing, merged) ==
    /\ spc' = newpc
    /\ stok' = tok
    /\ sexisting' = existing
    /\ smerged' = merged

\* setCredentials(code) is called: this.auth.getToken(code) is awaited
\* (without a client the call throws at once)
ExchangeCall ==
    /\ spc \in {"idle", "done", "threw"}
    /\ IF auth = "client"
       THEN /\ SetExchange("getToken", NoTokens, NoTokens, NoTokens)
            /\ SetService(Service)
            /\ last' = Step("setCredentials", 0, "call", TRUE, <<>>)
       ELSE /\ SetExchange("threw", NoTokens, NoTokens, NoTokens)
            /\ SetService(ExchangeCatch(Service))
            /\ last' = Step("setCredentials", 0, "call", FALSE, <<>>)
    /\ Deliver
    /\ UNCHANGED <<batchVars, faulty, apiVars, stopVars, settings, now, passVars, handlerVars, waitVars>>

\* await this.auth.getToken(code) returns tokens or throws
ExchangeReturn ==
    /\ spc = "getToken"
    /\ \E resp \in ProviderTokens(now) \cup ProviderFailure :
        IF resp.present
        THEN /\ SetExchange("load", resp, NoTokens, NoTokens)
             /\ SetService(Service)
             /\ last' = Step("setCredentials", 0, "getToken", TRUE, <<>>)
        ELSE /\ SetExchange("threw", NoTokens, NoTokens, NoTokens)
             /\ SetService(ExchangeCatch(Service))
             /\ last' = Step("setCredentials", 0, "getToken", FALSE, <<>>)
    /\ Deliver
    /\ UNCHANGED <<batchVars, faulty, apiVars, stopVars, settings, now, passVars, handlerVars, waitVars>>

\* await this.loadTokensFromSettings() returns (null when the store throws);
\* the merged tokens go to the client and saveTokensToSettings is awaited
ExistingLoad ==
    /\ spc = "load"
    /\ \E ok \in Outcomes :
        /\ LET existing == IF ok THEN persisted ELSE NoTokens
               merged == ExchangeMerge(existing, stok)
           IN  /\ SetExchange("save", stok, existing, merged)
               /\ SetService([Service EXCEPT !.credentials = merged])
               /\ last' = Step("setCredentials", 0, "tokens.load", ok, <<>>)
    /\ Deliver
    /\ UNCHANGED <<batchVars, faulty, apiVars, stopVars, settings, now, passVars, handlerVars, waitVars>>

\* await this.saveTokensToSettings(mergedTokens) returns or throws
SaveExchanged ==
    /\ spc = "save"
    /\ \E ok \in Outcomes :
        /\ IF ok
           THEN /\ SetExchange("done", stok, sexisting, smerged)
                /\ SetService([Service EXCEPT !.persisted = smerged,
                                              !.isAuthenticated = TRUE])
                /\ last' = Step("setCredentials", 0, "tokens.save", TRUE,
                                <<"authenticated">>)
           ELSE /\ SetExchange("threw", NoTokens, NoTokens, NoTokens)
                /\ SetService(ExchangeCatch(Service))
                /\ last' = Step("setCredentials", 0, "tokens.save", FALSE, <<>>)
    /\ Deliver
    /\ UNCHANGED <<batchVars, faulty, apiVars, stopVars, settings, now, passVars, handlerVars, waitVars>>

\* initialize() calls and setCredentials(code) calls, interleaved
NextRace ==
    \/ StartInitialize
    \/ SettingsGet(0)
    \/ TokensLoad(0)
    \/ RefreshReturn(0)
    \/ SaveRefreshed(0)
    \/ VerifyReturn(0)
    \/ ClearReturn(0)
    \/ ExchangeCall
    \/ ExchangeReturn
    \/ ExistingLoad
    \/ SaveExchanged

SpecRace == InitVerify /\ [][NextRace]_vars

(***************************************************************************)
(* the 'tokens' handler registered in initialize, one step per await       *)
(***************************************************************************)
\* the OAuth2 client emits 'tokens' (after a refresh or an exchange of its own)
TokensEvent ==
    /\ auth = "client"
    /\ hpc = "idle"
    /\ \E tokens \in ProviderTokens(now) :
        IF Truthy(tokens.refresh_token) \/ Truthy(tokens.access_token)
        THEN /\ hpc' = "load" /\ htok' = tokens /\ hmerged' = NoTokens
             /\ last' = Step("tokens", 0, "event", TRUE, <<>>)
        ELSE /\ UNCHANGED handlerVars
             /\ last' = Step("tokens", 0, "event", TRUE, <<"tokensUpdated">>)
    /\ Deliver
    /\ UNCHANGED <<batchVars, faulty, apiVars, stopVars, settingsVars, auth, credentials, isAuthenticated,
                   passVars, exchangeVars, waitVars>>

\* await this.loadTokensFromSettings() returns (null when the store throws)
HandlerLoad ==
    /\ hpc = "load"
    /\ \E ok \in Outcomes :
        /\ hmerged' = HandlerMerge(IF ok THEN persisted ELSE NoTokens, htok)
        /\ last' = Step("tokens", 0, "tokens.load", ok, <<>>)
    /\ hpc' = "save"
    /\ Deliver
    /\ UNCHANGED <<batchVars, faulty, apiVars, stopVars, settings, persisted, now, auth, credentials,
                   isAuthenticated, passVars, exchangeVars, htok, waitVars>>

\* await this.saveTokensToSettings(mergedTokens) returns or throws (then the
\* handler's promise rejects and tokensUpdated is not emitted)
HandlerSave ==
    /\ hpc = "save"
    /\ \E ok \in Outcomes :
        /\ persisted' = IF ok THEN hmerged ELSE persisted
        /\ last' = Step("tokens", 0, "tokens.save", ok,
                        IF ok THEN <<"tokensUpdated">> ELSE <<>>)
    /\ hpc' = "idle"
    /\ Deliver
    /\ UNCHANGED <<batchVars, faulty, apiVars, stopVars, settings, now, auth, credentials, isAuthenticated,
                   passVars, exchangeVars, htok, hmerged, waitVars>>

InitAuth ==
    /\ batch = <<>> /\ run = 0 /\ pfState = "idle" /\ pc = <<>> /\ iuser = <<>>
    /\ results = EmptyResults
    /\ files = [f \in FileIds |-> NoRow] /\ users = <<>> /\ clock = 0 /\ faults = 0
    /\ firstFiles = [f \in FileIds |-> NoRow] /\ firstUsers = <<>>
    /\ settings \in {"absent", "present"}
    /\ persisted \in InitialTokens
    /\ now \in 1..MaxNow
    /\ faulty = TRUE
    /\ GoogleInit({0})
    /\ npages = 1
    /\ endToken = Undef
    /\ authCheckInterval = "none"
    /\ monitoring = FALSE

NextAuth ==
    \/ Configure
    \/ StartInitialize
    \/ SettingsGet(0)
    \/ TokensLoad(0)
    \/ RefreshReturn(0)
    \/ SaveRefreshed(0)
    \/ VerifyReturn(0)
    \/ ClearReturn(0)
    \/ ExchangeCall
    \/ ExchangeReturn
    \/ ExistingLoad
    \/ SaveExchanged
    \/ TokensEvent
    \/ HandlerLoad
    \/ HandlerSave

SpecAuth == InitAuth /\ [][NextAuth]_vars

(***************************************************************************)
(* waitForConfiguration.  Caller c awaits its own initialize() (call c);   *)
(* the polling interval's callback awaits call 0, one callback at a time.  *)
(***************************************************************************)
Callers == 1..NCallers

\* a slip: the promise and its interval are created on every call
MayCreatePromiseAlways(cp) == TRUE

\* if (!this.configurationPromise)
MayCreatePromise(cp) == cp = "null"

\* waitForConfiguration() is called: initialize() is awaited
CallWait(c) ==
    /\ wpc[c] = "idle"
    /\ wpc' = [wpc EXCEPT ![c] = "init"]
    /\ SetPass(c, NewPass)
    /\ last' = Step("waitForConfiguration", c, "call", TRUE, <<>>)
    /\ Deliver
    /\ UNCHANGED <<batchVars, faulty, apiVars, stopVars, settingsVars, auth, credentials, isAuthenticated,
                   exchangeVars, handlerVars, cpromise, timer, timers>>

\* await this.initialize() has returned: return true, or create the promise
\* and its polling interval if there is none, and return the promise
WaitContinue(c) ==
    /\ wpc[c] = "init"
    /\ ipc[c] \in {"true", "false"}
    /\ SetPass(c, [NewPass EXCEPT !.pc = "idle"])
    /\ IF ipc[c] = "true"
       THEN /\ wpc' = [wpc EXCEPT ![c] = "returned"]
            /\ UNCHANGED <<cpromise, timer, timers>>
       ELSE IF MayCreatePromise(cpromise)
       THEN /\ cpromise' = "pending"
            /\ timer' = "active"
            /\ timers' = timers + 1
            /\ wpc' = [wpc EXCEPT ![c] = "waiting"]
       ELSE /\ wpc' = [wpc EXCEPT ![c] =
                         IF cpromise = "resolved" THEN "returned" ELSE "waiting"]
            /\ UNCHANGED <<cpromise, timer, timers>>
    /\ last' = Step("waitForConfiguration", c, "initialize", ipc[c] = "true", <<>>)
    /\ Deliver
    /\ UNCHANGED <<batchVars, faulty, apiVars, stopVars, settingsVars, auth, credentials, isAuthenticated,
                   exchangeVars, handlerVars>>

\* the interval fires: its callback awaits initialize()
TimerTick ==
    /\ timer = "active"
    /\ ipc[0] = "idle"
    /\ SetPass(0, NewPass)
    /\ last' = Step("interval", 0, "tick", TRUE, <<>>)
    /\ Deliver
    /\ UNCHANGED <<batchVars, faulty, apiVars, stopVars, settingsVars, auth, credentials, isAuthenticated,
                   exchangeVars, handlerVars, waitVars>>

\* the callback's await this.initialize() has returned: when initialized,
\* clearInterval(checkInterval) and resolve(true)
TimerContinue ==
    /\ ipc[0] \in {"true", "false"}
    /\ SetPass(0, [NewPass EXCEPT !.pc = "idle"])
    /\ IF ipc[0] = "true"
       THEN /\ timer' = "cleared"
            /\ cpromise' = "resolved"
            /\ wpc' = [c \in Callers |-> IF wpc[c] = "waiting" THEN "returned" ELSE wpc[c]]
       ELSE UNCHANGED <<timer, cpromise, wpc>>
    /\ last' = Step("interval", 0, "initialize", ipc[0] = "true", <<>>)
    /\ Deliver
    /\ UNCHANGED <<batchVars, faulty, apiVars, stopVars, settingsVars, auth, credentials, isAuthenticated,
                   exchangeVars, handlerVars, timers>>

InitWait ==
    /\ batch = <<>> /\ run = 0 /\ pfState = "idle" /\ pc = <<>> /\ iuser = <<>>
    /\ results = EmptyResults
    /\ files = [f \in FileIds |-> NoRow] /\ users = <<>> /\ clock = 0 /\ faults = 0
    /\ firstFiles = [f \in FileIds |-> NoRow] /\ firstUsers = <<>>
    /\ settings \in {"absent", "present"}
    /\ persisted \in InitialTokens
    /\ now \in 1..MaxNow
    /\ faulty = TRUE
    /\ GoogleInit(0..NCallers)
    /\ npages = 1
    /\ endToken = Undef
    /\ authCheckInterval = "none"
    /\ monitoring = FALSE

NextWait ==
    \/ Configure
    \/ \E c \in Callers : CallWait(c)
    \/ \E c \in Callers : WaitContinue(c)
    \/ TimerTick
    \/ TimerContinue
    \/ \E p \in 0..NCallers : SettingsGet(p)
    \/ \E p \in 0..NCallers : TokensLoad(p)
    \/ \E p \in 0..NCallers : RefreshReturn(p)
    \/ \E p \in 0..NCallers : SaveRefreshed(p)
    \/ \E p \in 0..NCallers : VerifyReturn(p)
    \/ \E p \in 0..NCallers : ClearReturn(p)

SpecWait == InitWait /\ [][NextWait]_vars

(***************************************************************************)
(* BackgroundService.start, one step per await.  The checkSettings calls   *)
(* of waitForGoogleSettings await initialize() call 1, one at a time; call *)
(* 0 is any other caller's initialize().                                   *)
(***************************************************************************)
\* a slip: the readiness check always asks for authentication
requiresSetupAlways(authed) == "authentication"

\* requiresSetup (after waitForInit): 'authentication' unless isAuthenticated
requiresSetup(authed) == IF ~authed THEN "authentication" ELSE Null

BgUnchanged == <<batchVars, settingsVars, auth, credentials, isAuthenticated,
                 exchangeVars, handlerVars, waitVars, faulty, apiVars,
                 authCheckInterval, monitoring, exited, srvVars>>

\* backgroundService.start(): validateDatabaseConnection() is awaited
BgStart ==
    /\ bpc = "idle"
    /\ bpc' = "db"
    /\ last' = Step("start", 0, "call", TRUE, <<>>)
    /\ UNCHANGED <<BgUnchanged, passVars, listening, binterval, calls, isRunning,
                   processInterval>>

\* validateDatabaseConnection returns or throws; connected, start awaits
\* waitForGoogleSettings: checkSettings() is called and the interval is set
BgDbReturn ==
    /\ bpc = "db"
    /\ \E ok \in Outcomes :
        /\ last' = Step("start", 0, "validateDatabaseConnection", ok, <<>>)
        /\ IF ok
           THEN /\ bpc' = "waitSettings"
                /\ binterval' = "active"
                /\ SetPass(1, NewPass)
           ELSE /\ bpc' = "failed"
                /\ UNCHANGED <<binterval, passVars>>
    /\ UNCHANGED <<BgUnchanged, listening, calls, isRunning, processInterval>>

\* the interval fires: checkSettings awaits initialize()
BgCheckTick ==
    /\ binterval = "active"
    /\ ipc[1] = "idle"
    /\ SetPass(1, NewPass)
    /\ last' = Step("checkSettings", 1, "tick", TRUE, <<>>)
    /\ UNCHANGED <<BgUnchanged, bgVars, isRunning, processInterval>>

\* checkSettings' await googleService.initialize() has returned: initialized,
\* the interval is cleared and the promise resolved; start then awaits
\* etlService.initialize()
BgCheckReturn ==
    /\ ipc[1] \in {"true", "false"}
    /\ SetPass(1, [NewPass EXCEPT !.pc = "idle"])
    /\ IF ipc[1] = "true"
       THEN /\ binterval' = "cleared"
            /\ bpc' = IF bpc = "waitSettings" THEN "etlInit" ELSE bpc
       ELSE UNCHANGED <<binterval, bpc>>
    /\ last' = Step("checkSettings", 1, "initialize", ipc[1] = "true", <<>>)
    /\ UNCHANGED <<BgUnchanged, listening, calls, isRunning, processInterval>>

\* etlService.initialize() returns or throws; then the 'authenticated'
\* listener is registered and requiresSetup() is awaited
BgEtlReturn ==
    /\ bpc = "etlInit"
    /\ \E ok \in Outcomes :
        /\ last' = Step("start", 0, "etlService.initialize", ok, <<>>)
        /\ bpc' = IF ok THEN "setup" ELSE "failed"
        /\ listening' = ok
    /\ UNCHANGED <<BgUnchanged, passVars, binterval, calls, isRunning,
                   processInterval>>

\* requiresSetup() has returned: without setup needed the services are
\* activated with the existing auth; then the heartbeat is started and the
\* shutdown handlers are registered
BgSetupReturn ==
    /\ bpc = "setup"
    /\ bpc' = "done"
    /\ isRunning' = TRUE
    /\ processInterval' = "active"
    /\ calls' = IF requiresSetup(isAuthenticated) = Null
                THEN Activate(calls, "requiresSetup", isAuthenticated)
                ELSE calls
    /\ last' = Step("start", 0, "requiresSetup",
                    requiresSetup(isAuthenticated) = Null, <<>>)
    /\ UNCHANGED <<BgUnchanged, passVars, listening, binterval>>

InitStart ==
    /\ batch = <<>> /\ run = 0 /\ pfState = "idle" /\ pc = <<>> /\ iuser = <<>>
    /\ results = EmptyResults
    /\ files = [f \in FileIds |-> NoRow] /\ users = <<>> /\ clock = 0 /\ faults = 0
    /\ firstFiles = [f \in FileIds |-> NoRow] /\ firstUsers = <<>>
    /\ settings \in {"absent", "present"}
    /\ persisted \in InitialTokens
    /\ now \in 1..MaxNow
    /\ faulty \in BOOLEAN
    /\ GoogleInit({0, 1})
    /\ npages = 1
    /\ endToken = Undef
    /\ authCheckInterval = "none"
    /\ monitoring = FALSE

PassSteps(p) ==
    \/ SettingsGet(p)
    \/ TokensLoad(p)
    \/ RefreshReturn(p)
    \/ SaveRefreshed(p)
    \/ VerifyReturn(p)
    \/ ClearReturn(p)

BgSteps ==
    \/ BgStart
    \/ BgDbReturn
    \/ BgCheckTick
    \/ BgCheckReturn
    \/ BgEtlReturn
    \/ BgSetupReturn

NextStart ==
    \/ Configure
    \/ StartInitialize
    \/ BgSteps
    \/ PassSteps(0)
    \/ PassSteps(1)

SpecStart == InitStart /\ [][NextStart]_vars

\* every step of start and of its checkSettings is eventually taken
SpecStartFair ==
    /\ SpecStart
    /\ WF_vars(BgSteps)
    /\ WF_vars(PassSteps(1))

(***************************************************************************)
(* BackgroundService shutdown, with the queue processing a batch           *)
(***************************************************************************)
Cleared(interval) == IF interval = "active" THEN "cleared" ELSE interval

\* SIGTERM or SIGINT arrives once the handlers are registered: shutdown stops
\* the intervals and the queue monitoring and calls process.exit, without
\* awaiting anything (exit code 1 when stopMonitoring throws)
Shutdown ==
    /\ bpc = "done"
    /\ exited = "no"
    /\ isRunning' = FALSE
    /\ processInterval' = Cleared(processInterval)
    /\ binterval' = Cleared(binterval)
    /\ authCheckInterval' = Cleared(authCheckInterval)
    /\ \E ok \in Outcomes :
        /\ monitoring' = IF ok THEN FALSE ELSE monitoring
        /\ exited' = IF ok THEN "0" ELSE "1"
        /\ last' = Step("shutdown", 0, "stopMonitoring", ok, <<>>)
    /\ UNCHANGED <<batchVars, settingsVars, auth, credentials, isAuthenticated,
                   passVars, exchangeVars, handlerVars, waitVars, faulty, apiVars,
                   bpc, listening, calls, srvVars>>

\* the process is alive: nothing runs after process.exit
Alive == exited = "no"
\* syncQueue.setInitialized(true) has been called: the consumer may run
QueueInitialized == \E k \in DOMAIN calls : calls[k].name = "setInitialized"

StopBatches == {<<RecA, RecA2>>, <<RecA, RecB>>}

InitStop ==
    /\ batch \in StopBatches
    /\ run = 0
    /\ pfState = "idle"
    /\ pc = [i \in 1..Len(batch) |-> "idle"]
    /\ iuser = [i \in 1..Len(batch) |-> 0]
    /\ results = EmptyResults
    /\ files = [f \in FileIds |-> NoRow]
    /\ users = <<>>
    /\ clock = 0
    /\ faults = 0
    /\ firstFiles = [f \in FileIds |-> NoRow]
    /\ firstUsers = <<>>
    /\ settings = "present"
    /\ persisted \in InitialTokens
    /\ now = 1
    /\ faulty = TRUE
    /\ GoogleInit({0, 1})
    /\ npages = 1
    /\ endToken = Undef
    /\ authCheckInterval \in {"none", "active"}
    /\ monitoring \in BOOLEAN

NextStop ==
    \/ Shutdown
    \/ Alive /\ BgSteps
    \/ Alive /\ PassSteps(1)
    \/ Alive /\ QueueInitialized /\ StartRun
    \/ Alive /\ \E i \in Items : CompleteFindOrCreate(i)
    \/ Alive /\ \E i \in Items : CompleteUserUpdate(i)
    \/ Alive /\ \E i \in Items : CompleteUpsert(i)
    \/ Alive /\ \E i \in Items : CompleteUpdateStats(i)
    \/ Alive /\ \E i \in Items : CompleteDegraded(i)

SpecStop == InitStop /\ [][NextStop]_vars

(***************************************************************************)
(* startServer of the API server, one step per await                       *)
(***************************************************************************)
SrvUnchanged == <<batchVars, settingsVars, auth, credentials, isAuthenticated,
                  exchangeVars, handlerVars, waitVars, faulty, apiVars, bgVars,
                  isRunning, processInterval, authCheckInterval, monitoring, exited>>

\* startServer(): connectToMongoDB() is awaited
SrvStart ==
    /\ srvpc = "idle"
    /\ srvpc' = "mongo"
    /\ last' = Step("startServer", 0, "call", TRUE, <<>>)
    /\ UNCHANGED <<SrvUnchanged, passVars, slistening>>

\* connectToMongoDB returns; connected, validateDatabaseConnection is awaited
SrvMongoReturn ==
    /\ srvpc = "mongo"
    /\ \E ok \in Outcomes :
        /\ srvpc' = IF ok THEN "db" ELSE "failed"
        /\ last' = Step("startServer", 0, "connectToMongoDB", ok, <<>>)
    /\ UNCHANGED <<SrvUnchanged, passVars, slistening>>

\* validateDatabaseConnection returns; connected, the app listens and
\* googleService.initialize(), etlService.initialize() and
\* syncQueue.initialize() are called and awaited together
SrvDbReturn ==
    /\ srvpc = "db"
    /\ \E ok \in Outcomes :
        /\ last' = Step("startServer", 0, "validateDatabaseConnection", ok, <<>>)
        /\ IF ok
           THEN /\ srvpc' = "services"
                /\ SetPass(1, NewPass)
           ELSE /\ srvpc' = "failed"
                /\ UNCHANGED passVars
    /\ UNCHANGED <<SrvUnchanged, slistening>>

\* Promise.all settles: fulfilled once initialize() has returned and the two
\* other services are initialized, the 'authenticated' listener is registered
\* and startServer returns; rejected, startServer throws
SrvServicesReturn ==
    /\ srvpc = "services"
    /\ \E ok \in Outcomes :
        /\ ok => ipc[1] \in {"true", "false"}
        /\ srvpc' = IF ok THEN "done" ELSE "failed"
        /\ slistening' = ok
        /\ last' = Step("startServer", 0, "Promise.all", ok, <<>>)
    /\ UNCHANGED <<SrvUnchanged, passVars>>

InitServer ==
    /\ batch = <<>> /\ run = 0 /\ pfState = "idle" /\ pc = <<>> /\ iuser = <<>>
    /\ results = EmptyResults
    /\ files = [f \in FileIds |-> NoRow] /\ users = <<>> /\ clock = 0 /\ faults = 0
    /\ firstFiles = [f \in FileIds |-> NoRow] /\ firstUsers = <<>>
    /\ settings = "present"
    /\ persisted \in InitialTokens
    /\ now \in 1..MaxNow
    /\ faulty \in BOOLEAN
    /\ GoogleInit({0, 1})
    /\ npages = 1
    /\ endToken = Undef
    /\ authCheckInterval = "none"
    /\ monitoring = FALSE

\* startServer, its initialize() call, and authorizations through the route
NextServer ==
    \/ SrvStart
    \/ SrvMongoReturn
    \/ SrvDbReturn
    \/ SrvServicesReturn
    \/ PassSteps(1)
    \/ ExchangeCall
    \/ ExchangeReturn
    \/ ExistingLoad
    \/ SaveExchanged

SpecServer == InitServer /\ [][NextServer]_vars

(***************************************************************************)
(* listFiles, getFile, getFileContent, one step per await                  *)
(***************************************************************************)
\* new Date(v).toISOString() for the date strings of the model; any other
\* string is an invalid date, for which toISOString throws a RangeError
ISOString == [d \in {"2024-05-01T10:00:00Z", "2024-05-01"} |->
                IF d = "2024-05-01" THEN "2024-05-01T00:00:00.000Z"
                ELSE "2024-05-01T10:00:00.000Z"]

ListInputs ==
    [modifiedTime : {Undef, Null, "2024-05-01T10:00:00Z", "2024-05-01", "yesterday"},
     query : {Null, "", "name contains 'report'"},
     fileId : {Undef},
     nextPageToken : {Null}]
FileInputs == {[NoInput EXCEPT !.fileId = "f1"]}

\* a slip: the query is joined without ` and `
listFilesQueryNoJoin(filters, query) ==
    LET time == IF Truthy(filters.modifiedTime)
                THEN "modifiedTime > '" \o ISOString[filters.modifiedTime] \o "'"
                ELSE ""
    IN  IF Truthy(query) THEN time \o query ELSE time

\* listFiles: the queryString built from filters?.modifiedTime and query
listFilesQuery(filters, query) ==
    LET time == IF Truthy(filters.modifiedTime)
                THEN "modifiedTime > '" \o ISOString[filters.modifiedTime] \o "'"
                ELSE ""
    IN  IF Truthy(query)
        THEN time \o (IF time # "" THEN " and " \o query ELSE query)
        ELSE time

\* the params of this.drive.files.list
listFilesParams(input) ==
    [sent |-> TRUE,
     pageToken |-> input.nextPageToken,
     fields |-> "nextPageToken, files(id, name, mimeType, modifiedTime, owners, size)",
     orderBy |-> "modifiedTime desc",
     q |-> IF listFilesQuery(input, input.query) # ""
           THEN listFilesQuery(input, input.query) ELSE Undef]

ApiUnchanged == <<batchVars, settingsVars, auth, credentials, isAuthenticated,
                  passVars, exchangeVars, handlerVars, waitVars, faulty, bgVars,
                  stopVars, oaVars>>

\* listFiles(...) or getFile(id) is called: this.waitForInit() is awaited
ApiCall ==
    /\ apc \in {"idle", "returned", "threw"}
    /\ \E kind \in {"listFiles", "getFile"} :
        /\ akind' = kind
        /\ ainput' \in (IF kind = "listFiles" THEN ListInputs ELSE FileInputs)
        /\ last' = Step(kind, 0, "call", TRUE, <<>>)
    /\ apc' = "waitForInit"
    /\ aparams' = NoParams
    /\ UNCHANGED <<ApiUnchanged, aresp, pageVars>>

\* getFileContent(id) is called: this.drive.files.export is awaited (a
\* TypeError is thrown and rethrown when there is no drive yet)
ContentCall ==
    /\ apc \in {"idle", "returned", "threw"}
    /\ akind' = "getFileContent"
    /\ ainput' \in FileInputs
    /\ aparams' = NoParams
    /\ apc' = IF auth = "client" THEN "provider" ELSE "threw"
    /\ last' = Step("getFileContent", 0, "call", auth = "client", <<>>)
    /\ UNCHANGED <<ApiUnchanged, aresp, pageVars>>

\* waitForInit() resolves (once initialize has built the client and the
\* drive); listFiles builds its params (toISOString may throw) and awaits
\* drive.files.list, getFile awaits drive.files.get
ApiInitReturn ==
    /\ apc = "waitForInit"
    /\ auth = "client"
    /\ IF /\ akind = "listFiles"
          /\ Truthy(ainput.modifiedTime)
          /\ ainput.modifiedTime \notin DOMAIN ISOString
       THEN /\ apc' = "threw"
            /\ aparams' = NoParams
            /\ last' = Step(akind, 0, "toISOString", FALSE, <<>>)
       ELSE /\ apc' = "provider"
            /\ aparams' = IF akind = "listFiles" THEN listFilesParams(ainput)
                          ELSE NoParams
            /\ last' = Step(akind, 0, "waitForInit", TRUE, <<>>)
    /\ UNCHANGED <<ApiUnchanged, akind, ainput, aresp, pageVars>>

\* the cursor the provider hands out with page i of n: the last page
\* carries endToken
MaxPages == 3
Cursor(i) == "page-" \o ToString(i + 1)
PageOf(token) ==
    IF \E i \in 1..npages - 1 : Cursor(i) = token
    THEN 1 + CHOOSE i \in 1..npages - 1 : Cursor(i) = token
    ELSE 1
\* response.data of drive.files.list for a pageToken: the page the token
\* stands for, the first page for none
DriveList(token) ==
    LET i == PageOf(token)
    IN  [files |-> <<i>>,
         nextPageToken |-> IF i < npages THEN Cursor(i) ELSE endToken]

\* a slip: hasMore is true whenever the provider sent the field
listFilesResultDefined(data) ==
    [files |-> data.files,
     nextPageToken |-> data.nextPageToken,
     hasMore |-> data.nextPageToken # Undef]

\* listFiles: the object returned from response.data
listFilesResult(data) ==
    [files |-> data.files,
     nextPageToken |-> data.nextPageToken,
     hasMore |-> Truthy(data.nextPageToken)]

\* the provider answers, or fails with an authorization error or another
\* error: the catch logs and rethrows
ApiReturn ==
    /\ apc = "provider"
    /\ \E answer \in {"ok"} \cup (IF faulty THEN {"authorization error", "error"}
                                  ELSE {}) :
        /\ apc' = IF answer = "ok" THEN "returned" ELSE "threw"
        /\ aresp' = IF answer = "ok" /\ akind = "listFiles"
                    THEN listFilesResult(DriveList(aparams.pageToken))
                    ELSE NoResp
        /\ last' = StepRet(akind, 0, "provider", answer = "ok", <<>>, answer)
    /\ UNCHANGED <<ApiUnchanged, akind, ainput, aparams, pageVars>>

InitApi ==
    /\ batch = <<>> /\ run = 0 /\ pfState = "idle" /\ pc = <<>> /\ iuser = <<>>
    /\ results = EmptyResults
    /\ files = [f \in FileIds |-> NoRow] /\ users = <<>> /\ clock = 0 /\ faults = 0
    /\ firstFiles = [f \in FileIds |-> NoRow] /\ firstUsers = <<>>
    /\ settings = "present"
    /\ persisted \in InitialTokens
    /\ now = 1
    /\ faulty = TRUE
    /\ GoogleInit({0})
    /\ npages = 1
    /\ endToken = Undef
    /\ authCheckInterval = "none"
    /\ monitoring = FALSE

NextApi ==
    \/ StartInitialize
    \/ PassSteps(0)
    \/ ApiCall
    \/ ContentCall
    \/ ApiInitReturn
    \/ ApiReturn

SpecApi == InitApi /\ [][NextApi]_vars

(***************************************************************************)
(* A caller paging through the listing: it calls listFiles, passes the     *)
(* nextPageToken of each result forward and stops when hasMore is false    *)
(***************************************************************************)
MaxCalls == MaxPages + 2

\* the caller calls listFiles, the first time without a cursor
PageCall ==
    /\ lpc \in {"idle", "next"}
    /\ lcalls < MaxCalls
    /\ akind' = "listFiles"
    /\ IF lpc = "idle"
       THEN ainput' \in ListInputs
       ELSE ainput' = [ainput EXCEPT !.nextPageToken = lcursor]
    /\ apc' = "waitForInit"
    /\ aparams' = NoParams
    /\ lpc' = "calling"
    /\ lcalls' = lcalls + 1
    /\ last' = Step("listFiles", 0, "call", TRUE, <<>>)
    /\ UNCHANGED <<ApiUnchanged, aresp, npages, endToken, lcursor>>

\* the call has settled: the caller stops on an error or on hasMore = false,
\* and keeps the cursor otherwise
PageContinue ==
    /\ lpc = "calling"
    /\ apc \in {"returned", "threw"}
    /\ lpc' = IF apc = "threw" THEN "threw"
              ELSE IF aresp.hasMore THEN "next" ELSE "done"
    /\ lcursor' = IF apc = "returned" /\ aresp.hasMore THEN aresp.nextPageToken
                  ELSE lcursor
    /\ last' = Step("caller", 0, "listFiles", apc = "returned", <<>>)
    /\ UNCHANGED <<ApiUnchanged, apc, akind, ainput, aparams, aresp, npages,
                   endToken, lcalls>>

InitPage ==
    /\ batch = <<>> /\ run = 0 /\ pfState = "idle" /\ pc = <<>> /\ iuser = <<>>
    /\ results = EmptyResults
    /\ files = [f \in FileIds |-> NoRow] /\ users = <<>> /\ clock = 0 /\ faults = 0
    /\ firstFiles = [f \in FileIds |-> NoRow] /\ firstUsers = <<>>
    /\ settings = "present"
    /\ persisted \in InitialTokens
    /\ now = 1
    /\ faulty = TRUE
    /\ GoogleInit({0})
    /\ npages \in 1..MaxPages
    /\ endToken \in {Undef, Null, ""}
    /\ authCheckInterval = "none"
    /\ monitoring = FALSE

NextPage ==
    \/ StartInitialize
    \/ PassSteps(0)
    \/ PageCall
    \/ ApiInitReturn
    \/ ApiReturn
    \/ PageContinue

SpecPage == InitPage /\ [][NextPage]_vars

(***************************************************************************)
(* BaseOpenAIService: initialize() call 0 is the constructor's, a          *)
(* reinitialize()'s or another caller's; call c > 0 is the one caller c    *)
(* makes in ensureInitialized.  One step per await.                        *)
(***************************************************************************)
OaUnchanged == <<batchVars, settingsVars, auth, credentials, isAuthenticated,
                 passVars, exchangeVars, handlerVars, waitVars, faulty, bgVars,
                 stopVars, apc, akind, ainput, aparams, aresp, pageVars>>

OaService == [isConfigured |-> isConfigured,
              configurationPromise |-> configurationPromise,
              configResolver |-> configResolver,
              opromises |-> opromises]

SetOaService(sv) ==
    /\ isConfigured' = sv.isConfigured
    /\ configurationPromise' = sv.configurationPromise
    /\ configResolver' = sv.configResolver
    /\ opromises' = sv.opromises

\* waitForConfiguration(): it awaits nothing; ret 0 stands for true, any other
\* ret is the promise returned
OaWaitForConfiguration(sv) ==
    IF sv.isConfigured THEN [sv |-> sv, ret |-> 0]
    ELSE IF sv.configurationPromise = 0
    THEN [sv |-> [sv EXCEPT !.configurationPromise = sv.opromises + 1,
                            !.configResolver = sv.opromises + 1,
                            !.opromises = sv.opromises + 1],
          ret |-> sv.opromises + 1]
    ELSE [sv |-> sv, ret |-> sv.configurationPromise]

\* reinitialize(): the fields it resets before it calls initialize()
reinitialize(sv) ==
    [sv EXCEPT !.isConfigured = FALSE, !.configurationPromise = 0,
               !.configResolver = 0]

\* the administrator stores the API key
OaConfigure ==
    /\ osettings = "absent"
    /\ osettings' = "present"
    /\ last' = Step("admin", 0, "openai.update", TRUE, <<>>)
    /\ UNCHANGED <<OaUnchanged, openai, isConfigured, configurationPromise,
                   configResolver, oresolved, opromises, oipc, opc, okind, owait,
                   oreinit>>

\* initialize() is called from outside the class
OaInitialize ==
    /\ oipc[0] = "idle"
    /\ oipc' = [oipc EXCEPT ![0] = "get"]
    /\ last' = Step("openai", 0, "initialize", TRUE, <<>>)
    /\ UNCHANGED <<OaUnchanged, osettings, openai, isConfigured, configurationPromise,
                   configResolver, oresolved, opromises, opc, okind, owait, oreinit>>

\* reinitialize() is called: the fields are reset and initialize() is awaited
OaReinitialize ==
    /\ oipc[0] = "idle"
    /\ openai' = "null"
    /\ SetOaService(reinitialize(OaService))
    /\ oipc' = [oipc EXCEPT ![0] = "get"]
    /\ oreinit' = TRUE
    /\ last' = Step("openai", 0, "reinitialize", TRUE, <<>>)
    /\ UNCHANGED <<OaUnchanged, osettings, oresolved, opc, okind, owait>>

\* caller c calls waitForConfiguration()
OaCallWait(c) ==
    /\ opc[c] = "idle"
    /\ LET r == OaWaitForConfiguration(OaService)
       IN  /\ SetOaService(r.sv)
           /\ opc' = [opc EXCEPT ![c] = IF r.ret = 0 THEN "returned" ELSE "waiting"]
           /\ owait' = [owait EXCEPT ![c] = r.ret]
    /\ okind' = [okind EXCEPT ![c] = "wait"]
    /\ last' = Step("openai", c, "waitForConfiguration", TRUE, <<>>)
    /\ UNCHANGED <<OaUnchanged, osettings, openai, oresolved, oipc, oreinit>>

\* caller c calls ensureInitialized(): configured, it checks this.openai;
\* otherwise it awaits initialize()
OaCallEnsure(c) ==
    /\ opc[c] = "idle"
    /\ okind' = [okind EXCEPT ![c] = "ensure"]
    /\ IF isConfigured
       THEN /\ opc' = [opc EXCEPT ![c] = IF openai = "null" THEN "threw"
                                         ELSE "returned"]
            /\ UNCHANGED oipc
       ELSE /\ opc' = [opc EXCEPT ![c] = "ensure1"]
            /\ oipc' = [oipc EXCEPT ![c] = "get"]
    /\ last' = Step("openai", c, "ensureInitialized", TRUE, <<>>)
    /\ UNCHANGED <<OaUnchanged, osettings, openai, isConfigured, configurationPromise,
                   configResolver, oresolved, opromises, owait, oreinit>>

\* await systemSettingsService.get("openai") of initialize() call p returns or
\* throws.  With a value: the client is built, isConfigured set and the
\* resolver, if any, called; initialize returns true.  Otherwise it returns
\* false.  The caller of ensureInitialized goes on from its await.
OaGetReturn(p) ==
    /\ oipc[p] = "get"
    /\ \E ok \in Outcomes :
        LET done == ok /\ osettings = "present"
            sv == IF done THEN [OaService EXCEPT !.isConfigured = TRUE] ELSE OaService
            r == OaWaitForConfiguration(sv)
            first == p # 0 /\ opc[p] = "ensure1"
            second == p # 0 /\ opc[p] = "ensure2"
        IN  /\ openai' = IF done THEN "client" ELSE openai
            /\ oresolved' = IF done /\ configResolver # 0
                            THEN oresolved \cup {configResolver} ELSE oresolved
            /\ last' = Step("openai", p, "settings.get", done, <<>>)
            /\ IF first /\ ~done
               THEN \* await this.waitForConfiguration(), then initialize() again
                    /\ SetOaService(r.sv)
                    /\ opc' = [opc EXCEPT ![p] = IF r.ret = 0 THEN "ensure2"
                                                 ELSE "waiting"]
                    /\ owait' = [owait EXCEPT ![p] = r.ret]
                    /\ oipc' = [oipc EXCEPT ![p] = IF r.ret = 0 THEN "get" ELSE "idle"]
               ELSE /\ SetOaService(sv)
                    /\ opc' = IF first \/ second
                              THEN [opc EXCEPT ![p] = IF done \/ openai # "null"
                                                     THEN "returned" ELSE "threw"]
                              ELSE opc
                    /\ oipc' = [oipc EXCEPT ![p] = "idle"]
                    /\ UNCHANGED owait
    /\ UNCHANGED <<OaUnchanged, osettings, okind, oreinit>>

\* the promise caller c awaits has been resolved: waitForConfiguration has
\* returned; in ensureInitialized, initialize() is awaited again
OaWake(c) ==
    /\ opc[c] = "waiting"
    /\ owait[c] \in oresolved
    /\ IF okind[c] = "wait"
       THEN /\ opc' = [opc EXCEPT ![c] = "returned"]
            /\ UNCHANGED oipc
       ELSE /\ opc' = [opc EXCEPT ![c] = "ensure2"]
            /\ oipc' = [oipc EXCEPT ![c] = "get"]
    /\ last' = Step("openai", c, "resolved", TRUE, <<>>)
    /\ UNCHANGED <<OaUnchanged, osettings, openai, isConfigured, configurationPromise,
                   configResolver, oresolved, opromises, okind, owait, oreinit>>

InitOpenAI ==
    /\ batch = <<>> /\ run = 0 /\ pfState = "idle" /\ pc = <<>> /\ iuser = <<>>
    /\ results = EmptyResults
    /\ files = [f \in FileIds |-> NoRow] /\ users = <<>> /\ clock = 0 /\ faults = 0
    /\ firstFiles = [f \in FileIds |-> NoRow] /\ firstUsers = <<>>
    /\ settings = "absent" /\ persisted = NoTokens /\ now = 1
    /\ faulty = TRUE
    /\ GoogleInit({0})
    /\ npages = 1
    /\ endToken = Undef
    /\ authCheckInterval = "none"
    /\ monitoring = FALSE

NextOpenAI ==
    \/ OaConfigure
    \/ OaInitialize
    \/ OaReinitialize
    \/ \E c \in 1..NCallers : OaCallWait(c)
    \/ \E c \in 1..NCallers : OaCallEnsure(c)
    \/ \E p \in 0..NCallers : OaGetReturn(p)
    \/ \E c \in 1..NCallers : OaWake(c)

SpecOpenAI == InitOpenAI /\ [][NextOpenAI]_vars

(***************************************************************************)
(* Claims about the batch processor (SpecBatch)                            *)
(***************************************************************************)
Finished == pfState \in {"resolved", "rejected"}

\* C1: processFiles never rejects, whatever fails for individual records: it
\* always resolves with its result report.
C1_NeverRejects == pfState # "rejected"

\* C2: once processFiles has finished, every record id of the batch has a row
\* in the File store, with syncStatus success or error.
C2_EveryIdHasRow ==
    Finished =>
        \A i \in Items :
            Truthy(batch[i].id) =>
                /\ files[batch[i].id].present
                /\ files[batch[i].id].syncStatus \in {"success", "error"}

\* C3: in the report, every record is counted exactly once: success + failed is
\* the number of records and errors has one entry per failed record; the batch
\* (valid A, B without mimeType, C with size "abc") gives success 1, failed 2.
C3_CountedOnce ==
    pfState = "resolved" =>
        /\ results.success + results.failed = Len(batch)
        /\ Len(results.errors) = results.failed
        /\ batch = <<RecA, RecB, RecC>> /\ faults = 0 =>
               results.success = 1 /\ results.failed = 2

\* C4: for a record missing id, name or mimeType the validation error names
\* the missing fields, and the write of the catch block leaves a File row
\* holding the record with syncStatus error and an errorLog.
C4_DegradedRowWritten ==
    [][\A i \in Items :
          (/\ pc[i] = "degraded"
           /\ pc'[i] # "degraded"
           /\ faults' = faults
           /\ MissingRequired(batch[i]) # <<>>)
          => /\ LastErrorOf(results, i) =
                    ValidationFailed(ValidationErrors(batch[i]))
             /\ \A n \in 1..Len(MissingRequired(batch[i])) :
                    ValidationErrors(batch[i])[n] =
                        <<"Missing required field", MissingRequired(batch[i])[n]>>
             /\ \E f \in FileIds :
                    /\ files'[f].present
                    /\ files'[f].metadata = batch[i]
                    /\ files'[f].syncStatus = "error"
                    /\ files'[f].errorLog # NoLog]_vars

\* the stores without their timestamps
StripRow(row) == [row EXCEPT !.lastSyncAttempt = 0, !.errorLog.timestamp = 0]
StripFiles(store) == [f \in FileIds |-> StripRow(store[f])]

SameAsAfterFirstRun ==
    /\ StripFiles(files) = StripFiles(firstFiles)
    /\ users = firstUsers

\* no two records of the batch disagree about a file id or about an owner
ConflictFree(b) ==
    \A i, j \in 1..Len(b) :
        /\ b[i].id = b[j].id => b[i] = b[j]
        /\ (/\ OwnerResolvable(b[i].owner)
            /\ OwnerResolvable(b[j].owner)
            /\ b[i].owner.permissionId = b[j].owner.permissionId)
           => b[i].owner = b[j].owner

UniqueUsers(store) ==
    \A j, k \in DOMAIN store :
        store[j].permissionId = store[k].permissionId => j = k

\* processOwner returns a user to item i in this step
OwnerReturned(i) ==
    /\ pc[i] \in {"findOrCreate", "userUpdate"}
    /\ pc'[i] \notin {"findOrCreate", "userUpdate"}
    /\ iuser'[i] # 0

\* C13: the User store never holds two rows with one permissionId, and when
\* processOwner returns a user for an owner, no row has been added for a
\* permissionId already stored and the row of that permissionId holds the
\* incoming email, displayName and photoLink.
C13_OneUserPerPermissionId ==
    [][/\ UniqueUsers(users')
       /\ \A i \in Items :
            OwnerReturned(i) =>
              LET o == batch[i].owner
                  row == users'[iuser'[i]]
              IN  /\ row.permissionId = o.permissionId
                  /\ row.email = o.emailAddress
                  /\ row.displayName = (IF o.displayName = Undef THEN Null
                                        ELSE o.displayName)
                  /\ row.photoLink = (IF o.photoLink = Undef THEN Null
                                      ELSE o.photoLink)
                  /\ (UserIndex(users, o.permissionId) # {}
                        => Len(users') = Len(users))]_vars

\* a batch with Ann and the renamed Ann has left one row, renamed
C13_Witness ==
    /\ pfState = "resolved" /\ run = 1
    /\ \E i, j \in Items : batch[i].owner = OwnerAnn /\ batch[j].owner = OwnerAnnRenamed
    /\ Len(users) = 1
    /\ users[1].displayName = "Ann B."

\* the owner the provider listing delivers for a record
ListedOwner(r) == IF Len(r.owners) > 0 THEN r.owners[1] ELSE NoOwner

\* C14: when processFiles has resolved (no store operation having failed),
\* every valid record with a listed owner carrying email and permissionId has
\* its User row, is counted in usersProcessed, and its File row refers to it.
C14_ListedOwnerResolved ==
    (pfState = "resolved" /\ faults = 0) =>
        \A i \in Items :
            (/\ OwnerResolvable(ListedOwner(batch[i]))
             /\ ValidationErrors(batch[i]) = <<>>
             /\ \A j \in Items : batch[j].id = batch[i].id => batch[j] = batch[i])
            => /\ results.usersProcessed >= 1
               /\ \E k \in DOMAIN users :
                    /\ users[k].permissionId = ListedOwner(batch[i]).permissionId
                    /\ files[batch[i].id].userId = k

\* processFiles with the callbacks of the items run one after the other, in
\* the order of the batch, no store operation failing
SeqItem(st, i) ==
    LET o == batch[i].owner
        found == UserFindOrCreate(st.users, o.permissionId, OwnerDefaults(o))
        uid == IF OwnerResolvable(o) THEN found.id ELSE 0
        users1 == IF ~OwnerResolvable(o) THEN st.users
                  ELSE IF ~found.created /\ OwnerDiffers(found.store[found.id], o)
                  THEN UserUpdate(found.store, found.id, OwnerUpdateValues(o))
                  ELSE found.store
        counted == IF uid # 0 THEN st.usersProcessed + 1 ELSE st.usersProcessed
        validation == validateFileData(batch[i], clock)
        values == [k \in DOMAIN validation.sanitizedData \cup {"userId"} |->
                     IF k = "userId" THEN uid ELSE validation.sanitizedData[k]]
        degraded == DegradedValues(batch[i], ValidationFailed(validation.errors), clock)
    IN  IF validation.isValid
        THEN LET files1 == FileUpsert(st.files, values)
             IN  [files |-> files1,
                  users |-> IF uid # 0 THEN UserUpdateStats(users1, files1, uid)
                            ELSE users1,
                  success |-> st.success + 1, failed |-> st.failed,
                  usersProcessed |-> counted]
        ELSE [files |-> IF FileUpsertAccepts(degraded, TRUE)
                        THEN FileUpsert(st.files, degraded) ELSE st.files,
              users |-> users1,
              success |-> st.success, failed |-> st.failed + 1,
              usersProcessed |-> counted]

RECURSIVE SeqRun(_)
SeqRun(n) ==
    IF n = 0
    THEN [files |-> [f \in FileIds |-> NoRow], users |-> <<>>,
          success |-> 0, failed |-> 0, usersProcessed |-> 0]
    ELSE SeqItem(SeqRun(n - 1), n)

SameAsInOrder ==
    LET seq == SeqRun(Len(batch))
    IN  /\ StripFiles(files) = StripFiles(seq.files)
        /\ users = seq.users
        /\ results.success = seq.success
        /\ results.failed = seq.failed
        /\ results.usersProcessed = seq.usersProcessed

Emitted(e) == \E i \in DOMAIN last.events : last.events[i] = e

\* the record is expired and has a refresh_token, as the specification puts it
ExpiredWithRefresh(t) ==
    t.present /\ now >= t.expiry_date /\ t.refresh_token # Undef

\* C6: a pass that loaded an expired record with a refresh_token has made
\* exactly one refresh call, has not touched isAuthenticated while that call
\* and its save are pending, and when the save succeeds the persisted record
\* holds the refresh_token the pass loaded, whatever the response carried.
C6_OneRefreshKeepsToken ==
    /\ \A p \in DOMAIN ipc :
         /\ irefresh[p] <= 1
         /\ ExpiredWithRefresh(itok[p]) =>
              /\ irefresh[p] = 1
              /\ ipc[p] \in {"refresh", "save"} => ~iassigned[p]
    /\ (last.by = "initialize" /\ last.op = "tokens.save" /\ last.ok) =>
         /\ ExpiredWithRefresh(itok[last.proc])
         /\ persisted.present
         /\ persisted.refresh_token = itok[last.proc].refresh_token
         /\ persisted.access_token \in {"a2", "a3"}
         /\ isAuthenticated

\* a refresh answered without a refresh_token has been saved
C6_Witness ==
    /\ last.by = "initialize" /\ last.op = "tokens.save" /\ last.ok
    /\ persisted.access_token = "a2"
    /\ persisted.refresh_token = "r1"
    /\ irefresh[0] = 1

\* C7: no write of a present record replaces a record that has a
\* refresh_token by one that has none.
C7_RefreshTokenNeverLost ==
    [][(HasRefresh(persisted) /\ persisted'.present) => HasRefresh(persisted')]_vars

\* C8: when the refresh call of a verification pass fails, the persisted
\* record is cleared, isAuthenticated is false and authenticationRequired is
\* emitted.
C8_RefreshFailureInvalidates ==
    (last.by = "initialize" /\ last.op = "refreshToken" /\ ~last.ok) =>
        /\ persisted = NoTokens
        /\ ~isAuthenticated
        /\ Emitted("authenticationRequired")

\* the existing record merged with the exchanged tokens
ExchangedOver(existing, tokens) ==
    [present |-> TRUE,
     access_token |-> tokens.access_token,
     refresh_token |-> IF tokens.refresh_token # Undef
                       THEN tokens.refresh_token ELSE existing.refresh_token,
     expiry_date |-> tokens.expiry_date]

\* C9: setCredentials emits 'authenticated' only in the step in which its
\* save succeeded, and then the persisted record is the record it loaded
\* merged with the exchanged tokens and isAuthenticated is true.
C9_ExchangePersistsMerged ==
    /\ (last.by = "setCredentials" /\ Emitted("authenticated")) =>
         /\ last.op = "tokens.save" /\ last.ok
         /\ spc = "done"
    /\ (last.by = "setCredentials" /\ last.op = "tokens.save" /\ last.ok) =>
         /\ Emitted("authenticated")
         /\ persisted = ExchangedOver(sexisting, stok)
         /\ isAuthenticated

\* an exchange without a refresh_token has been saved over a record with one
C9_Witness ==
    /\ last.by = "setCredentials" /\ last.op = "tokens.save" /\ last.ok
    /\ stok.refresh_token = Undef
    /\ HasRefresh(sexisting)
    /\ persisted.refresh_token = sexisting.refresh_token

\* C10: at most one promise and one interval are ever created; a waiting
\* caller waits on that pending promise with its interval running; and when
\* the interval's initialize() succeeds the interval is cleared, the promise
\* resolved and no caller is left waiting.
C10_OnePromiseOneTimer ==
    /\ timers <= 1
    /\ (timers = 0) = (cpromise = "null")
    /\ (\E c \in Callers : wpc[c] = "waiting") =>
         cpromise = "pending" /\ timer = "active"
    /\ cpromise = "resolved" => timer = "cleared"
    /\ (last.by = "interval" /\ last.op = "initialize" /\ last.ok) =>
         /\ timer = "cleared"
         /\ cpromise = "resolved"
         /\ \A c \in Callers : wpc[c] # "waiting"

\* two callers have been resolved by the one interval
C10_Witness ==
    /\ last.by = "interval" /\ last.op = "initialize" /\ last.ok
    /\ timers = 1
    /\ \A c \in Callers : wpc[c] = "returned"

(***************************************************************************)
(* Claims about BackgroundService (SpecStart, SpecStartFair)               *)
(***************************************************************************)
CallsNamed(name) == {k \in DOMAIN calls : calls[k].name = name}

\* C11: every startPeriodicSync call comes after a setAuth and a
\* setInitialized(true) call; each of the three calls is made on an
\* 'authenticated' event or on a readiness check that found isAuthenticated
\* true, and isAuthenticated is true when it is made.
C11_ActivationGatedOrdered ==
    /\ \A k \in CallsNamed("startPeriodicSync") :
         /\ \E j \in CallsNamed("setAuth") : j < k
         /\ \E j \in CallsNamed("setInitialized") : j < k
    /\ \A k \in DOMAIN calls :
         /\ calls[k].cause \in {"authenticated", "requiresSetup"}
         /\ calls[k].authed
    /\ calls # <<>> => listening

\* the services have been activated on an event and on the readiness check
C11_Witness ==
    /\ \E k \in CallsNamed("startPeriodicSync") : calls[k].cause = "authenticated"
    /\ \E k \in CallsNamed("startPeriodicSync") : calls[k].cause = "requiresSetup"

Activated ==
    /\ CallsNamed("setAuth") # {}
    /\ CallsNamed("setInitialized") # {}
    /\ CallsNamed("startPeriodicSync") # {}

\* C12: when nothing in the environment fails, the provider settings are
\* configured and a token record is persisted, start() eventually calls
\* setAuth, setInitialized(true) and startPeriodicSync.
C12_EventuallyActivated ==
    (~faulty /\ settings = "present" /\ persisted.present) ~> Activated

\* activated by the readiness check alone, no event having reached the listener
C12_Witness ==
    /\ ~faulty
    /\ Activated
    /\ \A k \in DOMAIN calls : calls[k].cause = "requiresSetup"
    /\ bpc = "done"

(***************************************************************************)
(* Claims about the failures of GoogleService (SpecAuth)                   *)
(***************************************************************************)
\* initialize() call p gets its answer from the settings store in this step
SettingsAnswered(p) == ipc[p] = "get" /\ ipc'[p] # "get"

\* C17: no initialize() call ever throws; and a call that finds the
\* provider settings absent returns false, emits nothing, and leaves the
\* persisted record, the client and isAuthenticated as they were.
C17_InitializeNeverThrows ==
    [][/\ \A p \in DOMAIN ipc : ipc'[p] \in {"idle", "get", "load", "refresh",
                                             "save", "verify", "clear",
                                             "false", "true"}
       /\ \A p \in DOMAIN ipc :
            (SettingsAnswered(p) /\ settings = "absent") =>
                /\ ipc'[p] = "false"
                /\ last'.events = <<>>
                /\ persisted' = persisted
                /\ isAuthenticated' = isAuthenticated
                /\ auth' = auth]_vars

\* initialize() has returned false for absent settings, the store having answered
C17_Witness ==
    /\ last.by = "initialize" /\ last.op = "settings.get" /\ last.ok
    /\ settings = "absent"
    /\ ipc[0] = "false"
    /\ persisted.present

\* C18: when getToken or the save of the merged tokens fails (or there is no
\* client to ask), setCredentials throws, has emitted no 'authenticated' and
\* isAuthenticated is false; setCredentials throws in no other step, and no
\* initialize() call throws.
C18_ExchangeFailureRethrown ==
    /\ (/\ last.by = "setCredentials"
        /\ last.op \in {"call", "getToken", "tokens.save"}
        /\ ~last.ok)
       => /\ spc = "threw"
          /\ ~Emitted("authenticated")
          /\ ~isAuthenticated
    /\ (last.by = "setCredentials" /\ spc = "threw") =>
          (last.op \in {"call", "getToken", "tokens.save"} /\ ~last.ok)
    /\ \A p \in DOMAIN ipc : ipc[p] # "threw"

\* the save of an exchange has failed after a session was authenticated
C18_Witness ==
    /\ last.by = "setCredentials" /\ last.op = "tokens.save" /\ ~last.ok
    /\ spc = "threw"
    /\ credentials.present
    /\ HasRefresh(persisted)

\* C19: when loadSavedTokens finds no persisted token record,
\* verifyAndInitializeAuth returns false, isAuthenticated is false,
\* authenticationRequired is emitted, 'authenticated' is not, and the call
\* has made and awaits no provider call.
C19_NoTokensAwaitsCredentials ==
    (last.by = "initialize" /\ last.op = "tokens.load" /\ persisted = NoTokens) =>
        /\ last.ret = "false"
        /\ ~isAuthenticated
        /\ Emitted("authenticationRequired")
        /\ ~Emitted("authenticated")
        /\ irefresh[last.proc] = 0
        /\ ipc[last.proc] \notin {"refresh", "save", "verify", "clear"}

\* the token store has answered that there is no record
C19_Witness ==
    /\ last.by = "initialize" /\ last.op = "tokens.load" /\ last.ok
    /\ persisted = NoTokens
    /\ last.ret = "false"
    /\ ipc[0] = "true"

(***************************************************************************)
(* Claims about the provider-facing calls (SpecApi)                        *)
(***************************************************************************)
\* C16: after listFiles, getFile or getFileContent has failed with an
\* authorization error, isAuthenticated is false.
C16_AuthErrorInvalidates ==
    (/\ last.by \in {"listFiles", "getFile", "getFileContent"}
     /\ last.ret = "authorization error")
    => ~isAuthenticated

HasTime == ainput.modifiedTime \notin {Undef, Null}
HasQuery == ainput.query \notin {Undef, Null, ""}
TimeClause == "modifiedTime > '" \o ISOString[ainput.modifiedTime] \o "'"

\* C20: the params listFiles sends have orderBy 'modifiedTime desc' and as q
\* the modifiedTime clause alone, the query alone, the two joined by ` and `,
\* or nothing, according to which of filters.modifiedTime and query are given.
C20_FilterComposition ==
    (akind = "listFiles" /\ aparams.sent) =>
        /\ aparams.orderBy = "modifiedTime desc"
        /\ (HasTime /\ HasQuery) => aparams.q = TimeClause \o " and " \o ainput.query
        /\ (HasTime /\ ~HasQuery) => aparams.q = TimeClause
        /\ (~HasTime /\ HasQuery) => aparams.q = ainput.query
        /\ (~HasTime /\ ~HasQuery) => aparams.q = Undef

\* a listing filtered by date and query has been requested
C20_Witness ==
    /\ akind = "listFiles" /\ apc = "provider" /\ aparams.sent
    /\ aparams.q = "modifiedTime > '2024-05-01T00:00:00.000Z' and name contains 'report'"

\* C21: every listFiles result has hasMore = TRUE exactly when the provider's
\* response carried a non-empty nextPageToken, and a caller that pages until
\* hasMore is false has made exactly as many calls as the listing has pages
NonEmpty(token) == token # Undef /\ token # Null /\ token # ""
C21_PaginationTerminates ==
    /\ (akind = "listFiles" /\ apc = "returned") =>
          /\ aresp.nextPageToken = DriveList(aparams.pageToken).nextPageToken
          /\ aresp.hasMore <=> NonEmpty(aresp.nextPageToken)
    /\ lpc = "done" => lcalls = npages
    /\ lpc = "next" => lcalls < npages
C21_Witness ==
    /\ lpc = "done" /\ npages = MaxPages /\ lcalls = MaxPages
    /\ endToken = "" /\ ~aresp.hasMore

\* C22: once the process has terminated on a shutdown signal, the heartbeat,
\* configuration-check and authentication polling intervals are stopped, the
\* queue monitoring is stopped, and no batch is left unfinished
C22_ShutdownDrains ==
    exited # "no" =>
        /\ ~isRunning
        /\ processInterval # "active"
        /\ binterval # "active"
        /\ authCheckInterval # "active"
        /\ exited = "0" => ~monitoring
        /\ pfState # "running"
\* the part about the intervals and the monitoring alone
C22_IntervalsStopped ==
    exited # "no" =>
        /\ ~isRunning
        /\ processInterval # "active"
        /\ binterval # "active"
        /\ authCheckInterval # "active"
        /\ exited = "0" => ~monitoring

(***************************************************************************)
(* Claims about the events and the outcome of one verifyAndInitializeAuth  *)
(***************************************************************************)
\* the step just taken is the one in which verifyAndInitializeAuth returned r
VerifyReturned(r) == last.by = "initialize" /\ last.ret = r

\* C23: a run of verifyAndInitializeAuth that returns false has emitted no
\* 'authenticated' event
C23_NoAuthenticatedBeforeFailure ==
    VerifyReturned("false") => last.emitted = 0

\* C24: a run of verifyAndInitializeAuth that returns true has emitted the
\* 'authenticated' event exactly once
C24_AuthenticatedOnce ==
    VerifyReturned("true") => last.emitted = 1

\* C25: when verifyAndInitializeAuth returns false, isAuthenticated is false
\* (and requiresSetup answers 'authentication')
C25_FalseMeansUnauthenticated ==
    VerifyReturned("false") =>
        /\ ~isAuthenticated
        /\ requiresSetup(isAuthenticated) = "authentication"

\* the record the initialize() call p has handed to the client and is verifying
Verified(p) == IF imerged[p].present THEN imerged[p] ELSE itok[p]

\* C26: a verification that invalidates (erases the persisted record, resets
\* isAuthenticated) does so only while the persisted record is the one it
\* verified, never after a code exchange has persisted another one
C26_InvalidatesOwnRecord ==
    [][(/\ ipc[0] = "clear"
        /\ ipc'[0] # "clear"
        /\ persisted' = NoTokens \/ (isAuthenticated /\ ~isAuthenticated'))
       => persisted = Verified(0)]_vars

(***************************************************************************)
(* Claims about startServer (SpecServer)                                   *)
(***************************************************************************)
\* etlService.setAuth and syncQueue.setInitialized(true) have been called
Routed == CallsNamed("setAuth") # {} /\ CallsNamed("setInitialized") # {}

\* C27: when nothing fails and startServer has returned with the service
\* authenticated by the tokens persisted at startup (no authorization having
\* been asked for), etlService.setAuth and syncQueue.setInitialized(true)
\* have been called
C27_StartupAuthRouted ==
    (~faulty /\ srvpc = "done" /\ isAuthenticated /\ spc = "idle") => Routed

\* a new authorization does reach the consumers
C27_RoutedByAuthorization ==
    /\ ~faulty /\ srvpc = "done" /\ spc = "done" /\ Routed

(***************************************************************************)
(* Claims about syncStatus and errorLog of the stored rows (SpecBatch)     *)
(***************************************************************************)
HasErrorLog(row) == row.errorLog # NoLog
\* the items whose row reads success
SuccessRows ==
    {i \in Items : Truthy(batch[i].id) /\ files[batch[i].id].syncStatus = "success"}

\* a stored row has an errorLog exactly when its syncStatus is error
StatusMatchesErrorLog ==
    \A f \in FileIds :
        files[f].present => (HasErrorLog(files[f]) <=> files[f].syncStatus = "error")
\* when a call has settled, every item it counted as success has a success row
SuccessRowsKept ==
    Finished => results.success <= Cardinality(SuccessRows)

\* C28: after any sequence of processFiles runs a stored row has an errorLog
\* exactly when its syncStatus is error (a later success clears the errorLog of
\* an earlier failure), and no row counted as success in a run is an error row
\* when the run has settled
C28_StatusErrorLogConsistent ==
    /\ StatusMatchesErrorLog
    /\ SuccessRowsKept

(***************************************************************************)
(* Claims about BaseOpenAIService (SpecOpenAI)                             *)
(***************************************************************************)
\* caller c is pending on a promise nobody has resolved
Pending(c) == opc[c] = "waiting" /\ owait[c] \notin oresolved
\* the step just taken is one in which an initialize() call succeeded
InitializeSucceeded ==
    last.by = "openai" /\ last.op = "settings.get" /\ last.ok

\* C29: when an initialize() call has succeeded, no caller is left pending in
\* waitForConfiguration, whatever initialize() and reinitialize() calls were
\* made before
C29_NoLostWakeup ==
    InitializeSucceeded => \A c \in 1..NCallers : ~Pending(c)

\* the same while reinitialize() has not been called
C29_NoLostWakeupWithoutReinitialize ==
    (InitializeSucceeded /\ ~oreinit) => \A c \in 1..NCallers : ~Pending(c)

====
